---- MODULE Spec2Model ----
(***************************************************************************)
(* Model of the GUI builder's export/serialization engine                  *)
(* (src/gui_builder_app): the background codec, the CTM resolver, the      *)
(* block composer, the sheet packer and the manifest codec, over the       *)
(* editor's page model.                                                    *)
(*                                                                         *)
(* Python values are represented as follows.  An Optional value is a       *)
(* sequence of length 0 (None) or 1.  A dict whose iteration order         *)
(* matters (PageState.entries) is a sequence of its values in insertion    *)
(* order.  A list of lists of bool is a function y -> x -> BOOLEAN.        *)
(***************************************************************************)
EXTENDS Integers, Sequences, FiniteSets, TLC

VARIABLES
    grid_n,                 \* GuiBuilderApp.grid_n
    pages,                  \* GuiBuilderApp.pages: page_id -> PageState
    current_page_id,        \* GuiBuilderApp.current_page_id
    start_page_id,          \* GuiBuilderApp.start_page_id
    next_uid,               \* GuiBuilderApp.next_uid
    next_entry_id,          \* GuiBuilderApp.next_entry_id (the editor's copy)
    selected_entry_id,      \* GuiBuilderApp.selected_entry_id
    gui_name,               \* GuiBuilderApp.gui_name_var
    live_page,              \* Optional: the page objects background/entries/
                            \* cell_to_entry alias once they are detached
                            \* from pages[current_page_id]
    preview_mode,           \* GuiBuilderApp.preview_mode
    preview_hover_entry_id, \* GuiBuilderApp._preview_hover_entry_id
    group_buttons_by_size,  \* GuiBuilderApp.group_buttons_by_size_var
    current_tool,           \* GuiBuilderApp.current_tool
    drag,                   \* Optional: _drag_start, _drag_end, _drag_mode
                            \* while _dragging
    mask_to_offset,         \* texture_mapping._CTM_MASK_TO_OFFSET
    tool_modules,           \* texture_mapping.ENTRY_TOOL_MODULES
    ctm_origins,            \* texture_mapping.CTM_ORIGINS (the mapped keys)
    op,                     \* the operation that ran last
    rects_out,              \* Optional: what _background_to_rects returned
    grid_out,               \* Optional: what _background_from_rects returned
    mask_in,                \* the mask handed to ctm_tile_offset
    offset_out,             \* Optional: what ctm_tile_offset returned
    plan_out,               \* Optional: what _plan_component_sheet_layout returned
    doc_in,                 \* Optional: the JSON document of the file to load
    image_out,              \* Optional: the tile copies of the image rendered last
    plan_log,               \* Optional: the first planner call, inputs and result
    load_log,               \* the documents loaded, with the model each left
    export_log,             \* what the last export wrote or failed to write,
                            \* in order
    timers                  \* the callbacks scheduled with root.after and not
                            \* yet run, as <<page_id, entry_id>>, in order

vars == <<grid_n, pages, current_page_id, start_page_id, next_uid,
          next_entry_id, selected_entry_id, gui_name, live_page,
          preview_mode, preview_hover_entry_id, group_buttons_by_size,
          current_tool, drag,
          mask_to_offset, tool_modules, ctm_origins,
          op, rects_out, grid_out, mask_in, offset_out, plan_out, doc_in,
          image_out, plan_log, load_log, export_log, timers>>

modelVars == <<grid_n, pages, current_page_id, start_page_id, next_uid,
               next_entry_id, selected_entry_id, gui_name, live_page>>
uiVars == <<preview_mode, preview_hover_entry_id, group_buttons_by_size,
            current_tool, drag>>
cfgVars == <<mask_to_offset, tool_modules, ctm_origins>>
codecVars == <<rects_out, grid_out>>
ctmVars == <<mask_in, offset_out>>
planVars == <<plan_out>>
\* the file read, what is kept of the calls made, and the callbacks pending
ioVars == <<doc_in, image_out, plan_log, load_log, export_log, timers>>

----------------------------------------------------------------------------
(* Python helpers *)

None == <<>>
Some(v) == <<v>>

Min(a, b) == IF a <= b THEN a ELSE b
Max(a, b) == IF a >= b THEN a ELSE b

Range(s) == {s[i] : i \in DOMAIN s}

----------------------------------------------------------------------------
(* models.py *)

Tool == {"background", "button_standard", "button_press", "button_toggle",
         "text_entry", "select_list", "text_slot", "item_slot"}

Rect(x0, y0, x1, y1) == [x0 |-> x0, y0 |-> y0, x1 |-> x1, y1 |-> y1]

normalized(r) == Rect(Min(r.x0, r.x1), Min(r.y0, r.y1), Max(r.x0, r.x1), Max(r.y0, r.y1))

width(r) == normalized(r).x1 - normalized(r).x0 + 1

height(r) == normalized(r).y1 - normalized(r).y0 + 1

\* Rect.cells() as the set of the <<x, y>> it lists
cells(r) == {<<x, y>> : x \in normalized(r).x0 .. normalized(r).x1,
                        y \in normalized(r).y0 .. normalized(r).y1}

Grid(n, v) == [y \in 0 .. n - 1 |-> [x \in 0 .. n - 1 |-> v]]

_new_page_state(page_id, n) ==
    [page_id |-> page_id,
     background |-> Grid(n, FALSE),
     entries |-> <<>>,
     cell_to_entry |-> Grid(n, None),
     next_entry_id |-> 1]

----------------------------------------------------------------------------
(* Background codec: app.py _background_to_rects / _background_from_rects *)

RECURSIVE GrowWidth(_, _, _, _, _, _)
GrowWidth(background, visited, n, x, y, w) ==
    IF x + w < n /\ background[y][x + w] /\ ~visited[y][x + w]
    THEN GrowWidth(background, visited, n, x, y, w + 1)
    ELSE w

RECURSIVE GrowHeight(_, _, _, _, _, _, _)
GrowHeight(background, visited, n, x, y, w, h) ==
    IF y + h < n /\ \A xx \in x .. x + w - 1 :
                        background[y + h][xx] /\ ~visited[y + h][xx]
    THEN GrowHeight(background, visited, n, x, y, w, h + 1)
    ELSE h

\* mutant of MarkVisited: only the first row of the block is marked
MarkVisitedFirstRow(visited, n, x, y, w, h) ==
    [yy \in 0 .. n - 1 |-> [xx \in 0 .. n - 1 |->
        visited[yy][xx] \/ (yy = y /\ xx \in x .. x + w - 1)]]

MarkVisited(visited, n, x, y, w, h) ==
    [yy \in 0 .. n - 1 |-> [xx \in 0 .. n - 1 |->
        visited[yy][xx] \/ (yy \in y .. y + h - 1 /\ xx \in x .. x + w - 1)]]

\* the inner loop, for x in range(n), on row y: acc = [visited, rects]
RECURSIVE ScanRow(_, _, _, _, _)
ScanRow(background, n, y, x, acc) ==
    IF x >= n THEN acc
    ELSE IF acc.visited[y][x] \/ ~background[y][x]
         THEN ScanRow(background, n, y, x + 1, acc)
         ELSE LET w == GrowWidth(background, acc.visited, n, x, y, 1)
                  h == GrowHeight(background, acc.visited, n, x, y, w, 1)
              IN ScanRow(background, n, y, x + 1,
                         [visited |-> MarkVisited(acc.visited, n, x, y, w, h),
                          rects |-> Append(acc.rects, Rect(x, y, x + w - 1, y + h - 1))])

\* the outer loop, for y in range(n)
RECURSIVE ScanBackground(_, _, _, _)
ScanBackground(background, n, y, acc) ==
    IF y >= n THEN acc.rects
    ELSE ScanBackground(background, n, y + 1, ScanRow(background, n, y, 0, acc))

_background_to_rects(background, n) ==
    ScanBackground(background, n, 0, [visited |-> Grid(n, FALSE), rects |-> <<>>])

\* mutant of SetRectCells: the rect's far edges taken as exclusive
SetRectCellsExclusive(bg, n, r) ==
    [y \in 0 .. n - 1 |-> [x \in 0 .. n - 1 |->
        bg[y][x] \/ (x >= normalized(r).x0 /\ x < normalized(r).x1
                     /\ y >= normalized(r).y0 /\ y < normalized(r).y1)]]

\* bg[y][x] = True for the cells of one rect that lie in the grid
SetRectCells(bg, n, r) ==
    [y \in 0 .. n - 1 |-> [x \in 0 .. n - 1 |->
        bg[y][x] \/ (<<x, y>> \in cells(normalized(r))
                     /\ 0 <= x /\ x < n /\ 0 <= y /\ y < n)]]

RECURSIVE FromRects(_, _, _, _)
FromRects(bg, n, rects, i) ==
    IF i > Len(rects) THEN bg
    ELSE FromRects(SetRectCells(bg, n, rects[i]), n, rects, i + 1)

_background_from_rects(rects, n) == FromRects(Grid(n, FALSE), n, rects, 1)

----------------------------------------------------------------------------
(* CTM resolver: texture_mapping.py CTM_DIRS / ctm_tile_offset, app.py _ctm_mask *)

\* <<dx, dy, bit>>: bit0 = N, bit1 = E, bit2 = S, bit3 = W
CTM_DIRS == << <<0, -1, 1>>, <<1, 0, 2>>, <<0, 1, 4>>, <<-1, 0, 8>> >>

\* m & bit # 0, for a bit that is a power of two and 0 <= m
HasBit(m, bit) == (m \div bit) % 2 = 1

\* mutant of StructuredOffset: the nine-slice column of a west-only cell and
\* of an east-only cell exchanged
StructuredOffsetSwapped(m) ==
    LET n == HasBit(m, 1)
        e == HasBit(m, 2)
        s == HasBit(m, 4)
        w == HasBit(m, 8)
    IN IF ~(n \/ e \/ s \/ w) THEN <<0, 0>>
       ELSE IF ~(n \/ s) /\ (e \/ w)
            THEN (IF e /\ w THEN <<2, 0>> ELSE IF e THEN <<1, 0>> ELSE <<3, 0>>)
       ELSE IF ~(e \/ w) /\ (n \/ s)
            THEN (IF n /\ s THEN <<0, 2>> ELSE IF s THEN <<0, 1>> ELSE <<0, 3>>)
       ELSE <<IF w /\ e THEN 2 ELSE IF w THEN 1 ELSE 3,
              IF n /\ s THEN 2 ELSE IF n THEN 3 ELSE 1>>

\* the structured 4x4 layout, for m in 0 .. 15
StructuredOffset(m) ==
    LET n == HasBit(m, 1)
        e == HasBit(m, 2)
        s == HasBit(m, 4)
        w == HasBit(m, 8)
    IN IF ~(n \/ e \/ s \/ w) THEN <<0, 0>>
       ELSE IF ~(n \/ s) /\ (e \/ w)
            THEN (IF e /\ w THEN <<2, 0>> ELSE IF e THEN <<1, 0>> ELSE <<3, 0>>)
       ELSE IF ~(e \/ w) /\ (n \/ s)
            THEN (IF n /\ s THEN <<0, 2>> ELSE IF s THEN <<0, 1>> ELSE <<0, 3>>)
       ELSE <<IF w /\ e THEN 2 ELSE IF w THEN 3 ELSE 1,
              IF n /\ s THEN 2 ELSE IF n THEN 3 ELSE 1>>

\* mask & 0xF, then the configured table's entry if it has one
ctm_tile_offset(mask) ==
    LET m == mask % 16
    IN IF mask_to_offset # None /\ m \in DOMAIN mask_to_offset[1]
       THEN mask_to_offset[1][m]
       ELSE StructuredOffset(m)

RECURSIVE MaskBits(_, _, _, _)
MaskBits(cell_set, x, y, i) ==
    IF i > Len(CTM_DIRS) THEN 0
    ELSE (IF <<x + CTM_DIRS[i][1], y + CTM_DIRS[i][2]>> \in cell_set
          THEN CTM_DIRS[i][3] ELSE 0)
         + MaskBits(cell_set, x, y, i + 1)

\* the bits are distinct powers of two, so mask |= bit adds them
_ctm_mask(cell_set, x, y) == MaskBits(cell_set, x, y, 1)

----------------------------------------------------------------------------
(* Entries and their metadata: models.py Entry, app.py _place_entry *)

TILE_PX == 16

EXPORT_SHEET_PX == 256

Entry(entry_id, uid, tool, rect, active, label, meta) ==
    [entry_id |-> entry_id, uid |-> uid, tool |-> tool, rect |-> rect,
     active |-> active, label |-> label, meta |-> meta]

\* the meta dicts of the model are records; page_change and hover are
\* Optional records (a missing key, or a value that is no dict, is None)
Meta(locked, hover, page_change) ==
    [locked |-> locked, hover |-> hover, page_change |-> page_change]

PageChange(mode, target_page_id, modulo) ==
    [mode |-> mode, target_page_id |-> target_page_id, modulo |-> modulo]

Hover(enabled, text) == [enabled |-> enabled, text |-> text]

_sorted_page_ids(pgs) ==
    LET RECURSIVE Asc(_)
        Asc(S) == IF S = {} THEN <<>>
                  ELSE LET m == CHOOSE a \in S : \A b \in S : a <= b
                       IN <<m>> \o Asc(S \ {m})
    IN Asc(DOMAIN pgs)

\* list.index(v) as a 1-based position
IndexOf(s, v) == CHOOSE i \in DOMAIN s : s[i] = v /\ \A j \in 1 .. i - 1 : s[j] # v

----------------------------------------------------------------------------
(* Manifest components: app.py _plan_component_sheet_layout, first loop *)

_component_type_for_tool(tool) ==
    CASE tool = "button_standard" -> "button"
      [] tool = "button_toggle" -> "toggle_button"
      [] tool = "text_slot" -> "label"
      [] tool = "text_entry" -> "text_field"
      [] tool = "select_list" -> "scroll_list"
      [] tool = "item_slot" -> "item_slot"
      [] OTHER -> tool

_component_label_for_entry(ent) == ent.label

\* ENTRY_TOOL_MODULES.get(tool) or {}, then .get(key): Optional module key
ModuleOf(tool, key) ==
    IF tool \in DOMAIN tool_modules /\ key \in DOMAIN tool_modules[tool]
    THEN Some(tool_modules[tool][key]) ELSE None

_entry_requires_component_export(ent) ==
    IF ent.tool = "background" THEN FALSE
    ELSE IF ent.tool \notin {"button_standard", "button_toggle"} THEN FALSE
    ELSE LET base_module ==
                 IF ent.tool # "button_toggle" THEN ModuleOf(ent.tool, "base")
                 ELSE IF ModuleOf(ent.tool, "unpressed") # None
                      THEN ModuleOf(ent.tool, "unpressed")
                      ELSE ModuleOf(ent.tool, "base")
         IN IF base_module = None THEN FALSE
            ELSE IF ent.tool = "button_toggle" THEN TRUE
            ELSE \E k \in {"hover", "locked"} :
                    ModuleOf(ent.tool, k) # None /\ ModuleOf(ent.tool, k) # base_module

_hover_text_enabled_for(ent) ==
    IF ent.meta.hover = None THEN FALSE ELSE ent.meta.hover[1].enabled

_hover_text_for(ent) ==
    IF ent.meta.hover = None THEN "" ELSE ent.meta.hover[1].text

\* the f-strings are kept as tuples of their parts
_format_button_hover_details(ent) ==
    IF ent.tool = "button_toggle"
    THEN <<"Toggle: ", IF ent.active THEN "ON" ELSE "OFF">>
    ELSE IF ent.tool = "button_standard"
    THEN IF ent.meta.page_change = None THEN <<"Standard: action=none">>
         ELSE LET pc == ent.meta.page_change[1]
                  wrap_txt == IF pc.modulo THEN "wrap" ELSE "no-wrap"
              IN IF pc.mode = "close" THEN <<"Standard: action=close_gui">>
                 ELSE IF pc.mode = "goto"
                      THEN <<"Standard: goto page ", pc.target_page_id, wrap_txt>>
                 ELSE IF pc.mode \in {"next", "prev"}
                      THEN <<"Standard: ", pc.mode, wrap_txt>>
                 ELSE <<"Standard: action=none">>
    ELSE <<"">>

_format_hover_tooltip_text(ent) ==
    IF _hover_text_for(ent) # "" THEN <<_hover_text_for(ent)>>
    ELSE IF ent.tool \in {"button_standard", "button_toggle"}
         THEN _format_button_hover_details(ent)
    ELSE IF ent.tool = "text_entry"
         THEN (IF ent.label # "" THEN <<"Text entry: ", ent.label>> ELSE <<"Text entry">>)
    ELSE IF ent.tool = "select_list"
         THEN (IF ent.label # "" THEN <<"Select: ", ent.label>> ELSE <<"Select list">>)
    ELSE IF ent.tool = "text_slot" THEN <<"Text slot">>
    ELSE IF ent.tool = "item_slot" THEN <<"Item slot">>
    ELSE <<ent.tool>>

\* Optional page id a standard button opens
_resolved_open_page_for_button(pgs, pid, ent) ==
    LET page_ids == _sorted_page_ids(pgs) IN
    IF ent.tool # "button_standard" THEN None
    ELSE IF ent.meta.page_change = None THEN None
    ELSE LET pc == ent.meta.page_change[1] IN
         IF Len(page_ids) = 0 \/ pc.mode = "none" THEN None
         ELSE IF pc.mode = "close" THEN None
         ELSE IF pc.mode = "goto"
              THEN (IF pc.target_page_id \in DOMAIN pgs THEN Some(pc.target_page_id) ELSE None)
         ELSE IF pid \notin Range(page_ids) THEN None
         ELSE IF pc.mode \notin {"next", "prev"} THEN None
         ELSE LET cur_idx == IndexOf(page_ids, pid) - 1
                  new_idx == IF pc.mode = "next" THEN cur_idx + 1 ELSE cur_idx - 1
              IN IF pc.modulo THEN Some(page_ids[(new_idx % Len(page_ids)) + 1])
                 ELSE IF new_idx < 0 \/ new_idx >= Len(page_ids) THEN None
                 ELSE Some(page_ids[new_idx + 1])

_close_gui_for_button(ent) ==
    IF ent.tool # "button_standard" THEN FALSE
    ELSE IF ent.meta.page_change = None THEN FALSE
    ELSE ent.meta.page_change[1].mode = "close"

\* the items of a select list's label: split on commas, stripped, non-empty
SplitItems(label) ==
    CASE label = "" -> <<>>
      [] label = "a,b" -> <<"a", "b">>
      [] label = "a, ,b" -> <<"a", "b">>
      [] OTHER -> <<label>>

\* int(getattr(ent, "uid", 0) or 0), with the entry id as the fallback
ExportUid(ent) == IF ent.uid <= 0 THEN ent.entry_id ELSE ent.uid

\* mutant of BlockKey: a toggle's key takes the entry's state on screen, where
\* the hovered entry is shown in the other state
BlockKeyOnScreen(ent, by_size) ==
    LET r == normalized(ent.rect) IN
    IF ent.tool \in {"button_standard", "button_toggle"} /\ by_size
    THEN IF ent.tool = "button_toggle"
         THEN <<"toggle", width(r), height(r), ent.meta.locked,
                ent.active # (preview_hover_entry_id = Some(ent.entry_id))>>
         ELSE <<"button", width(r), height(r)>>
    ELSE <<"component", ExportUid(ent)>>

\* mutant of BlockKey: the key of a toggle leaves out its active flag
BlockKeyWithoutActive(ent, by_size) ==
    LET r == normalized(ent.rect) IN
    IF ent.tool \in {"button_standard", "button_toggle"} /\ by_size
    THEN IF ent.tool = "button_toggle"
         THEN <<"toggle", width(r), height(r), ent.meta.locked>>
         ELSE <<"button", width(r), height(r)>>
    ELSE <<"component", ExportUid(ent)>>

BlockKey(ent, by_size) ==
    LET r == normalized(ent.rect) IN
    IF ent.tool \in {"button_standard", "button_toggle"} /\ by_size
    THEN IF ent.tool = "button_toggle"
         THEN <<"toggle", width(r), height(r), ent.meta.locked, ent.active>>
         ELSE <<"button", width(r), height(r)>>
    ELSE <<"component", ExportUid(ent)>>

BlockSpec(ent, by_size) ==
    LET r == normalized(ent.rect) IN
    [block_key |-> BlockKey(ent, by_size),
     w |-> width(r) * TILE_PX * 2,
     h |-> height(r) * TILE_PX * 2,
     w_tiles |-> width(r),
     h_tiles |-> height(r)]

\* the component dict of one entry; keys that may be missing are Optional
Component(pgs, pid, ent, by_size) ==
    LET r == normalized(ent.rect)
        comp_type == _component_type_for_tool(ent.tool)
    IN [id |-> ExportUid(ent),
        type |-> comp_type,
        offset |-> [page |-> pid, x |-> r.x0, y |-> r.y0],
        size_tiles |-> [w |-> width(r), h |-> height(r)],
        label |-> IF comp_type = "scroll_list" THEN None
                  ELSE Some(_component_label_for_entry(ent)),
        locked |-> IF ent.meta.locked THEN Some(TRUE) ELSE None,
        items |-> IF comp_type = "scroll_list" THEN Some(SplitItems(ent.label)) ELSE None,
        hover_text |-> IF _hover_text_enabled_for(ent)
                       THEN Some(_format_hover_tooltip_text(ent)) ELSE None,
        open_page |-> _resolved_open_page_for_button(pgs, pid, ent),
        close_gui |-> IF _close_gui_for_button(ent) THEN Some(TRUE) ELSE None,
        toggled |-> IF ent.tool = "button_toggle" THEN Some(ent.active) ELSE None,
        block_key |-> IF _entry_requires_component_export(ent)
                      THEN Some(BlockKey(ent, by_size)) ELSE None,
        sheet |-> None, tex |-> None, toggle_tex |-> None,
        disabled_tex |-> None, toggle_disabled_tex |-> None]

IncludeInManifest(ent) ==
    /\ ent.tool \in {"button_standard", "button_toggle", "text_slot",
                     "text_entry", "select_list", "item_slot"}
    /\ width(ent.rect) * TILE_PX > 0
    /\ height(ent.rect) * TILE_PX > 0

\* the (page id, entry) pairs in the order the first loop meets them
RECURSIVE PageEntryPairs(_, _, _)
PageEntryPairs(pgs, page_ids, i) ==
    IF i > Len(page_ids) THEN <<>>
    ELSE [k \in DOMAIN pgs[page_ids[i]].entries |->
             <<page_ids[i], pgs[page_ids[i]].entries[k]>>]
         \o PageEntryPairs(pgs, page_ids, i + 1)

\* the first loop: acc = [components, block_specs, block_key_to_rep], where
\* block_specs is the list of the specs in the order their keys were first met
RECURSIVE CollectComponents(_, _, _, _, _)
CollectComponents(pgs, pairs, i, by_size, acc) ==
    IF i > Len(pairs) THEN acc
    ELSE LET pid == pairs[i][1]
             ent == pairs[i][2]
         IN IF ~IncludeInManifest(ent)
            THEN CollectComponents(pgs, pairs, i + 1, by_size, acc)
            ELSE LET comp == Component(pgs, pid, ent, by_size)
                     bk == BlockKey(ent, by_size)
                     fresh == /\ comp.block_key # None
                              /\ \A j \in DOMAIN acc.block_specs :
                                     acc.block_specs[j].block_key # bk
                 IN CollectComponents(pgs, pairs, i + 1, by_size,
                       [components |-> Append(acc.components, comp),
                        block_specs |-> IF fresh
                                        THEN Append(acc.block_specs, BlockSpec(ent, by_size))
                                        ELSE acc.block_specs,
                        block_key_to_rep |-> IF fresh
                                             THEN Append(acc.block_key_to_rep,
                                                         <<bk, <<pid, ent.entry_id>> >>)
                                             ELSE acc.block_key_to_rep])

----------------------------------------------------------------------------
(* Block order: app.py _plan_component_sheet_layout, items.sort *)

\* the decimal digits of n >= 0 as character codes
RECURSIVE Digits(_)
Digits(n) == IF n < 10 THEN <<48 + n>> ELSE Digits(n \div 10) \o <<48 + (n % 10)>>

\* repr of an int
ReprInt(n) == IF n < 0 THEN <<45>> \o Digits(-n) ELSE Digits(n)

\* repr of a bool: False, True
ReprBool(b) == IF b THEN <<84, 114, 117, 101>> ELSE <<70, 97, 108, 115, 101>>

\* repr of the kind, a str: 'button', 'component', 'toggle'
ReprKind(kind) ==
    <<39>> \o (CASE kind = "button" -> <<98, 117, 116, 116, 111, 110>>
                 [] kind = "component" -> <<99, 111, 109, 112, 111, 110, 101, 110, 116>>
                 [] kind = "toggle" -> <<116, 111, 103, 103, 108, 101>>) \o <<39>>

\* ", " between the items of a tuple
ReprSep == <<44, 32>>

\* repr(block_key) as the character codes of the string
ReprKey(bk) ==
    <<40>> \o ReprKind(bk[1]) \o ReprSep \o
    (CASE bk[1] = "component" -> ReprInt(bk[2])
       [] bk[1] = "button" -> ReprInt(bk[2]) \o ReprSep \o ReprInt(bk[3])
       [] bk[1] = "toggle" -> ReprInt(bk[2]) \o ReprSep \o ReprInt(bk[3]) \o ReprSep
                              \o ReprBool(bk[4]) \o ReprSep \o ReprBool(bk[5]))
    \o <<41>>

\* s < t for strings given as character codes
RECURSIVE StrLess(_, _)
StrLess(s, t) ==
    IF Len(t) = 0 THEN FALSE
    ELSE IF Len(s) = 0 THEN TRUE
    ELSE IF s[1] # t[1] THEN s[1] < t[1]
    ELSE StrLess(Tail(s), Tail(t))

\* the sort key (h * w, h, w, repr(block_key)) of a < that of b
SortKeyLess(a, b) ==
    IF a.h * a.w # b.h * b.w THEN a.h * a.w < b.h * b.w
    ELSE IF a.h # b.h THEN a.h < b.h
    ELSE IF a.w # b.w THEN a.w < b.w
    ELSE StrLess(ReprKey(a.block_key), ReprKey(b.block_key))

\* list.sort(key, reverse=True): descending, and stable on equal keys
RECURSIVE SortItems(_)
SortItems(items) ==
    IF Len(items) = 0 THEN <<>>
    ELSE LET i == CHOOSE k \in DOMAIN items :
                     /\ \A j \in DOMAIN items : ~SortKeyLess(items[k], items[j])
                     /\ \A j \in 1 .. k - 1 : SortKeyLess(items[j], items[k])
             rest == [j \in 1 .. Len(items) - 1 |-> IF j < i THEN items[j] ELSE items[j + 1]]
         IN <<items[i]>> \o SortItems(rest)

----------------------------------------------------------------------------
(* Sheet packer: app.py _plan_component_sheet_layout, placement loop.      *)
(* A sheet's occ grid is kept as the set of its occupied tiles <<x, y>>.   *)

\* max_px, and the fallback when it is below one tile
MaxPx == IF EXPORT_SHEET_PX < TILE_PX THEN 512 ELSE EXPORT_SHEET_PX

sheet_tiles == Max(1, MaxPx \div TILE_PX)

_new_sheet == [w |-> MaxPx, h |-> MaxPx, placements |-> <<>>, occ |-> Some({})]

_tiles_needed(px) == Max(1, (px + TILE_PX - 1) \div TILE_PX)

_can_place(occ, x0, y0, w_t, h_t) ==
    IF x0 < 0 \/ y0 < 0 THEN FALSE
    ELSE IF x0 + w_t > sheet_tiles \/ y0 + h_t > sheet_tiles THEN FALSE
    ELSE \A yy \in y0 .. y0 + h_t - 1 : \A xx \in x0 .. x0 + w_t - 1 : <<xx, yy>> \notin occ

\* mutant of _mark: only the origin tile is marked
_mark_origin_only(occ, x0, y0, w_t, h_t) == occ \cup {<<x0, y0>>}

_mark(occ, x0, y0, w_t, h_t) ==
    occ \cup {<<xx, yy>> : xx \in x0 .. x0 + w_t - 1, yy \in y0 .. y0 + h_t - 1}

\* the origins _place_in_sheet tries, and the first of them in its scan order
FreeOrigins(occ, w_t, h_t) ==
    {o \in (0 .. sheet_tiles - w_t) \X (0 .. sheet_tiles - h_t) :
        _can_place(occ, o[1], o[2], w_t, h_t)}

\* mutant of FirstOrigin: the scan goes down the columns
FirstOriginByColumn(S) ==
    CHOOSE o \in S : \A q \in S : o[1] < q[1] \/ (o[1] = q[1] /\ o[2] <= q[2])

FirstOrigin(S) ==
    CHOOSE o \in S : \A q \in S : o[2] < q[2] \/ (o[2] = q[2] /\ o[1] <= q[1])

\* _place_in_sheet: [placed, sheet]
_place_in_sheet(sheet, it) ==
    LET w_t == _tiles_needed(it.w)
        h_t == _tiles_needed(it.h)
        free == FreeOrigins(sheet.occ[1], w_t, h_t)
    IN IF free = {} THEN [placed |-> FALSE, sheet |-> sheet]
       ELSE LET o == FirstOrigin(free)
            IN [placed |-> TRUE,
                sheet |-> [sheet EXCEPT
                    !.occ = Some(_mark(sheet.occ[1], o[1], o[2], w_t, h_t)),
                    !.placements = Append(sheet.placements,
                        [x |-> o[1] * TILE_PX, y |-> o[2] * TILE_PX,
                         block_key |-> it.block_key])]]

\* mutant of TryOpenSheets: a sheet without occ is taken for an empty open sheet
RECURSIVE TryEverySheet(_, _, _)
TryEverySheet(sheets, it, i) ==
    IF i > Len(sheets) THEN [placed |-> FALSE, sheets |-> sheets]
    ELSE LET sh == IF sheets[i].occ = None THEN [sheets[i] EXCEPT !.occ = Some({})]
                   ELSE sheets[i]
             got == _place_in_sheet(sh, it)
         IN IF got.placed
            THEN [placed |-> TRUE, sheets |-> [sheets EXCEPT ![i] = got.sheet]]
            ELSE TryEverySheet(sheets, it, i + 1)

\* for sh in sheets: the first open sheet, from index i on, that takes the item
RECURSIVE TryOpenSheets(_, _, _)
TryOpenSheets(sheets, it, i) ==
    IF i > Len(sheets) THEN [placed |-> FALSE, sheets |-> sheets]
    ELSE IF sheets[i].occ = None THEN TryOpenSheets(sheets, it, i + 1)
    ELSE LET got == _place_in_sheet(sheets[i], it)
         IN IF got.placed
            THEN [placed |-> TRUE, sheets |-> [sheets EXCEPT ![i] = got.sheet]]
            ELSE TryOpenSheets(sheets, it, i + 1)

\* mutant of PlaceItem: the dedicated sheet gets the ordinary sheet size
PlaceItemFixedSize(sheets, it) ==
    IF it.w > MaxPx \/ it.h > MaxPx
    THEN Append(sheets, [w |-> MaxPx, h |-> MaxPx,
                         placements |-> <<[x |-> 0, y |-> 0, block_key |-> it.block_key]>>,
                         occ |-> None])
    ELSE LET tried == TryOpenSheets(sheets, it, 1)
         IN IF tried.placed THEN tried.sheets
            ELSE Append(sheets, _place_in_sheet(_new_sheet, it).sheet)

\* mutant of PlaceItem: only the width is tested against the sheet size
PlaceItemWidthOnly(sheets, it) ==
    IF it.w > MaxPx
    THEN Append(sheets, [w |-> it.w, h |-> it.h,
                         placements |-> <<[x |-> 0, y |-> 0, block_key |-> it.block_key]>>,
                         occ |-> None])
    ELSE LET tried == TryOpenSheets(sheets, it, 1)
         IN IF tried.placed THEN tried.sheets
            ELSE Append(sheets, _place_in_sheet(_new_sheet, it).sheet)

\* one pass of the loop over items
PlaceItem(sheets, it) ==
    IF it.w > MaxPx \/ it.h > MaxPx
    THEN Append(sheets, [w |-> it.w, h |-> it.h,
                         placements |-> <<[x |-> 0, y |-> 0, block_key |-> it.block_key]>>,
                         occ |-> None])
    ELSE LET tried == TryOpenSheets(sheets, it, 1)
         IN IF tried.placed THEN tried.sheets
            ELSE Append(sheets, _place_in_sheet(_new_sheet, it).sheet)

RECURSIVE PlaceItems(_, _, _)
PlaceItems(sheets, items, i) ==
    IF i > Len(items) THEN sheets
    ELSE PlaceItems(PlaceItem(sheets, items[i]), items, i + 1)


----------------------------------------------------------------------------
(* The plan: app.py _plan_component_sheet_layout, from the placement index on *)

\* every <<sheet index, placement>> of the sheets, in the order of the loops
RECURSIVE AllPlacements(_, _)
AllPlacements(sheets, i) ==
    IF i > Len(sheets) THEN <<>>
    ELSE [k \in DOMAIN sheets[i].placements |-> <<i, sheets[i].placements[k]>>]
         \o AllPlacements(sheets, i + 1)

\* placement_index[bk] is written once per placement of bk: the last one stays
PlacementIndex(sheets) ==
    LET pls == AllPlacements(sheets, 1)
        keys == {pls[k][2].block_key : k \in DOMAIN pls}
    IN [bk \in keys |->
           LET k == CHOOSE k \in DOMAIN pls :
                        /\ pls[k][2].block_key = bk
                        /\ \A j \in DOMAIN pls : pls[j][2].block_key = bk => j <= k
           IN [sheet |-> pls[k][1], x |-> pls[k][2].x, y |-> pls[k][2].y]]

\* mutant of AttachPlacement: the sheet index is attached as enumerate gives
\* it, counted from 0
AttachPlacementFromZero(c, placement_index) ==
    IF c.block_key = None \/ c.block_key[1] \notin DOMAIN placement_index
    THEN [c EXCEPT !.block_key = None]
    ELSE LET pos == placement_index[c.block_key[1]]
         IN [c EXCEPT !.block_key = None,
                      !.sheet = Some(pos.sheet - 1),
                      !.tex = Some([x |-> pos.x, y |-> pos.y])]

\* attach sheet/tex to one component and drop its _block_key
AttachPlacement(c, placement_index) ==
    IF c.block_key = None \/ c.block_key[1] \notin DOMAIN placement_index
    THEN [c EXCEPT !.block_key = None]
    ELSE LET pos == placement_index[c.block_key[1]]
             w_px == c.size_tiles.w * TILE_PX
             h_px == c.size_tiles.h * TILE_PX
             tex == [x |-> pos.x, y |-> pos.y]
         IN [c EXCEPT
               !.block_key = None,
               !.sheet = Some(pos.sheet),
               !.tex = Some(tex),
               !.toggle_tex =
                   IF c.type # "toggle_button" THEN None
                   ELSE IF w_px > 0 /\ h_px > 0
                        THEN Some([x |-> pos.x + w_px, y |-> pos.y])
                        ELSE Some(tex),
               !.disabled_tex =
                   IF c.type = "toggle_button"
                   THEN (IF w_px > 0 /\ h_px > 0
                         THEN Some([x |-> pos.x + w_px, y |-> pos.y + h_px])
                         ELSE Some(tex))
                   ELSE IF c.type = "button"
                   THEN (IF w_px > 0 THEN Some([x |-> pos.x + w_px, y |-> pos.y])
                         ELSE Some(tex))
                   ELSE None,
               !.toggle_disabled_tex =
                   IF c.type # "toggle_button" THEN None
                   ELSE IF w_px > 0 /\ h_px > 0
                        THEN Some([x |-> pos.x + w_px, y |-> pos.y + h_px])
                        ELSE Some(tex)]

\* components.sort(key = (page, id)): ascending, and stable on equal keys
ComponentLess(a, b) ==
    \/ a.offset.page < b.offset.page
    \/ (a.offset.page = b.offset.page /\ a.id < b.id)

RECURSIVE SortComponents(_)
SortComponents(cs) ==
    IF Len(cs) = 0 THEN <<>>
    ELSE LET i == CHOOSE k \in DOMAIN cs :
                     /\ \A j \in DOMAIN cs : ~ComponentLess(cs[j], cs[k])
                     /\ \A j \in 1 .. k - 1 : ComponentLess(cs[k], cs[j])
             rest == [j \in 1 .. Len(cs) - 1 |-> IF j < i THEN cs[j] ELSE cs[j + 1]]
         IN <<cs[i]>> \o SortComponents(rest)

StripOcc(sheets) ==
    [i \in DOMAIN sheets |->
        [w |-> sheets[i].w, h |-> sheets[i].h, placements |-> sheets[i].placements]]

\* the plan for the pages pgs: [components, sheets, placement_index, block_key_to_rep]
_plan_component_sheet_layout(pgs, by_size) ==
    LET got == CollectComponents(pgs, PageEntryPairs(pgs, _sorted_page_ids(pgs), 1), 1,
                                 by_size,
                                 [components |-> <<>>, block_specs |-> <<>>,
                                  block_key_to_rep |-> <<>>])
    IN IF Len(got.components) = 0
       THEN [components |-> <<>>, sheets |-> <<>>,
             placement_index |-> <<>>, block_key_to_rep |-> <<>>]
       ELSE LET items == SortItems(got.block_specs)
                sheets == PlaceItems(<<>>, items, 1)
                placement_index == PlacementIndex(sheets)
            IN [components |->
                    SortComponents([k \in DOMAIN got.components |->
                        AttachPlacement(got.components[k], placement_index)]),
                sheets |-> StripOcc(sheets),
                placement_index |-> placement_index,
                block_key_to_rep |-> got.block_key_to_rep]

----------------------------------------------------------------------------
(* Manifest codec: app.py load_from_json_dict.                             *)
(* A JSON document is a record; a key that may be missing is Optional.     *)
(*   document: version, grid_n, gui_name, pages, background, entries,      *)
(*             next_uid, start_page_id                                     *)
(*   page:     page_id, background_rects, background, entries              *)
(*   entry:    id, uid, tool, rect, active, label, meta                    *)

\* the model a load reads and writes
CurrentModel ==
    [grid_n |-> grid_n, pages |-> pages, current_page_id |-> current_page_id,
     start_page_id |-> start_page_id, next_uid |-> next_uid,
     next_entry_id |-> next_entry_id, selected_entry_id |-> selected_entry_id,
     gui_name |-> gui_name, live_page |-> live_page]

\* while uid_counter in used_uids: uid_counter += 1
RECURSIVE SkipUsed(_, _)
SkipUsed(used_uids, uid_counter) ==
    IF uid_counter \in used_uids THEN SkipUsed(used_uids, uid_counter + 1)
    ELSE uid_counter

\* us = [used_uids, uid_counter, max_uid]; the result is [uid, us]
_alloc_uid(us, requested) ==
    LET rid == IF requested = None THEN 0 ELSE requested[1] IN
    IF rid > 0 /\ rid \notin us.used_uids
    THEN [uid |-> rid,
          us |-> [used_uids |-> us.used_uids \cup {rid},
                  uid_counter |-> us.uid_counter,
                  max_uid |-> Max(us.max_uid, rid)]]
    ELSE LET c == SkipUsed(us.used_uids, us.uid_counter)
         IN [uid |-> Max(us.max_uid, c),
             us |-> [used_uids |-> us.used_uids \cup {c},
                     uid_counter |-> c + 1,
                     max_uid |-> Max(us.max_uid, c)]]

\* entries[eid] = ent on a dict kept as the list of its values
DictPut(entries, ent) ==
    IF \E k \in DOMAIN entries : entries[k].entry_id = ent.entry_id
    THEN [k \in DOMAIN entries |->
             IF entries[k].entry_id = ent.entry_id THEN ent ELSE entries[k]]
    ELSE Append(entries, ent)

\* cell_to_entry[y][x] = eid for the cells of the rect that lie in the grid
ClaimCells(cell_to_entry, n, rect, eid) ==
    LET claimed == cells(rect)
    IN [y \in 0 .. n - 1 |-> [x \in 0 .. n - 1 |->
           IF <<x, y>> \in claimed THEN Some(eid) ELSE cell_to_entry[y][x]]]

\* mutant of LoadedTool: a name that is no tool is loaded as it stands
LoadedToolLenient(raw_tool) ==
    IF raw_tool = "button_press" THEN Some("button_standard")
    ELSE Some(raw_tool)

\* Tool(raw_tool), after the deprecated name: Optional tool
LoadedTool(raw_tool) ==
    IF raw_tool = "button_press" THEN Some("button_standard")
    ELSE IF raw_tool \in Tool THEN Some(raw_tool)
    ELSE None

\* the loop over a page's entries: acc = [st, max_id, us]
RECURSIVE LoadEntries(_, _, _, _)
LoadEntries(objs, i, n, acc) ==
    IF i > Len(objs) THEN acc
    ELSE LET obj == objs[i]
             tool == LoadedTool(obj.tool)
         IN IF tool = None THEN LoadEntries(objs, i + 1, n, acc)
            ELSE LET rect == normalized(obj.rect)
                     eid == obj.id
                     got == _alloc_uid(acc.us, obj.uid)
                     ent == Entry(eid, got.uid, tool[1], rect, obj.active,
                                  obj.label, obj.meta)
                 IN LoadEntries(objs, i + 1, n,
                       [st |-> [acc.st EXCEPT
                                   !.entries = DictPut(@, ent),
                                   !.cell_to_entry = ClaimCells(@, n, rect, eid)],
                        max_id |-> Max(acc.max_id, eid),
                        us |-> got.us])

\* a legacy background: a list of grid_n rows of grid_n values
ValidLegacyBackground(bg, n) ==
    /\ bg # None
    /\ DOMAIN bg[1] = 0 .. n - 1
    /\ \A y \in DOMAIN bg[1] : DOMAIN bg[1][y] = 0 .. n - 1

\* the loop over the pages: acc = [raised, pages, us]
RECURSIVE LoadPages(_, _, _, _)
LoadPages(pobjs, i, n, acc) ==
    IF i > Len(pobjs) \/ acc.raised THEN acc
    ELSE LET pobj == pobjs[i]
             page_id == IF pobj.page_id = None THEN 1 ELSE pobj.page_id[1]
         IN IF pobj.background_rects = None /\ ~ValidLegacyBackground(pobj.background, n)
            THEN [acc EXCEPT !.raised = TRUE]
            ELSE LET background ==
                         IF pobj.background_rects # None
                         THEN _background_from_rects(pobj.background_rects[1], n)
                         ELSE [y \in 0 .. n - 1 |-> [x \in 0 .. n - 1 |->
                                  pobj.background[1][y][x]]]
                     entries == IF pobj.entries = None THEN <<>> ELSE pobj.entries[1]
                     st0 == [_new_page_state(page_id, n) EXCEPT !.background = background]
                     got == LoadEntries(entries, 1, n,
                                        [st |-> st0, max_id |-> 0, us |-> acc.us])
                     st == [got.st EXCEPT !.next_entry_id = got.max_id + 1]
                 IN LoadPages(pobjs, i + 1, n,
                       [raised |-> FALSE,
                        pages |-> [p \in DOMAIN acc.pages \cup {page_id} |->
                                      IF p = page_id THEN st ELSE acc.pages[p]],
                        us |-> got.us])

\* mutant of LegacyPages: the single page takes the entries and leaves the
\* background unpainted
LegacyPagesUnpainted(data) ==
    <<[page_id |-> Some(1), background_rects |-> None,
       background |-> Some(Grid(data.grid_n, FALSE)),
       entries |-> IF data.entries # None THEN data.entries ELSE Some(<<>>)]>>

\* the single page a document without "pages" stands for
LegacyPages(data) ==
    <<[page_id |-> Some(1), background_rects |-> None,
       background |-> data.background,
       entries |-> IF data.entries # None THEN data.entries ELSE Some(<<>>)]>>

\* the page whose background, entries and cell_to_entry the editor aliases
LivePageOf(m) ==
    IF m.live_page # None THEN m.live_page[1] ELSE m.pages[m.current_page_id]

\* load_from_json_dict(data) on the model m: [raised, model]; when it raises,
\* model is what the assignments made up to the raise leave: after
\* pages.clear() the editor still aliases the objects of the old page
load_from_json_dict(m, data) ==
    LET m1 == IF data.gui_name # None THEN [m EXCEPT !.gui_name = data.gui_name[1]] ELSE m
    IN IF data.version \notin {1, 2, 3} THEN [raised |-> TRUE, model |-> m1]
       ELSE IF data.grid_n \notin {16, 32} THEN [raised |-> TRUE, model |-> m1]
       ELSE LET pobjs == IF data.pages = None THEN LegacyPages(data) ELSE data.pages[1]
            IN IF Len(pobjs) = 0 THEN [raised |-> TRUE, model |-> m1]
               ELSE LET n == data.grid_n
                        uid_counter == IF data.next_uid = None THEN 1
                                       ELSE Max(1, data.next_uid[1])
                        got == LoadPages(pobjs, 1, n,
                                   [raised |-> FALSE, pages |-> <<>>,
                                    us |-> [used_uids |-> {},
                                            uid_counter |-> uid_counter,
                                            max_uid |-> 0]])
                        m2 == [m1 EXCEPT !.grid_n = n, !.pages = got.pages,
                                         !.live_page = Some(LivePageOf(m))]
                    IN IF got.raised THEN [raised |-> TRUE, model |-> m2]
                       ELSE LET start_pid == IF data.start_page_id = None THEN 1
                                             ELSE data.start_page_id[1]
                                start == IF start_pid \in DOMAIN got.pages THEN start_pid
                                         ELSE _sorted_page_ids(got.pages)[1]
                            IN [raised |-> FALSE,
                                model |-> [m2 EXCEPT
                                    !.next_uid = Max(got.us.uid_counter, got.us.max_uid + 1),
                                    !.start_page_id = start,
                                    !.current_page_id = start,
                                    !.next_entry_id = got.pages[start].next_entry_id,
                                    !.selected_entry_id = None,
                                    !.live_page = None]]

----------------------------------------------------------------------------
(* texture_mapping.json, read by texture_mapping.py at import.  The file   *)
(* is configuration: the model draws it from the tables below.             *)

\* a mapping with every variant of every tool on a module of its own
ModulesFull ==
    [t \in {"button_standard", "button_toggle", "text_entry", "select_list",
            "text_slot", "item_slot"} |->
        CASE t = "button_standard" ->
                 [k \in {"base", "hover", "locked"} |->
                    CASE k = "base" -> "button"
                      [] k = "hover" -> "button_hover"
                      [] OTHER -> "button_locked"]
          [] t = "button_toggle" ->
                 [k \in {"base", "unpressed", "hover_base", "hover_unpressed",
                         "pressed_locked", "unpressed_locked"} |->
                    CASE k = "base" -> "toggle_on"
                      [] k = "unpressed" -> "toggle_off"
                      [] k = "hover_base" -> "toggle_on_hover"
                      [] k = "hover_unpressed" -> "toggle_off_hover"
                      [] k = "pressed_locked" -> "toggle_on_locked"
                      [] OTHER -> "toggle_off_locked"]
          [] OTHER -> [k \in {"base"} |-> t]]

\* a mapping without button variants: a standard button has its base module
\* only, a toggle button has no module at all
ModulesPlain ==
    [t \in {"button_standard", "text_slot"} |->
        [k \in {"base"} |-> IF t = "button_standard" THEN "button" ELSE t]]

ModuleKeys == {"background_border", "button_background", "button",
               "button_hover", "button_locked", "toggle_on", "toggle_off",
               "toggle_on_hover", "toggle_off_hover", "toggle_on_locked",
               "toggle_off_locked", "text_entry", "select_list", "text_slot",
               "item_slot"}

\* _origin_from_obj on {"module": [mx, my]}: module coordinates times the
\* CTM block size; the modules are laid out four to a row
ModuleIndex(key) ==
    CASE key = "background_border" -> 0 [] key = "button_background" -> 1
      [] key = "button" -> 2 [] key = "button_hover" -> 3
      [] key = "button_locked" -> 4 [] key = "toggle_on" -> 5
      [] key = "toggle_off" -> 6 [] key = "toggle_on_hover" -> 7
      [] key = "toggle_off_hover" -> 8 [] key = "toggle_on_locked" -> 9
      [] key = "toggle_off_locked" -> 10 [] key = "text_entry" -> 11
      [] key = "select_list" -> 12 [] key = "text_slot" -> 13
      [] OTHER -> 14

_origin_from_obj(key, ctm_size) ==
    <<(ModuleIndex(key) % 4) * ctm_size, (ModuleIndex(key) \div 4) * ctm_size>>

OriginsFull == [k \in ModuleKeys |-> _origin_from_obj(k, 4)]

\* ctm_mask_to_offset tables: absent, or overriding some masks
MaskTables ==
    {None,
     Some([m \in {15} |-> <<0, 0>>]),
     Some([m \in {0, 5} |-> IF m = 0 THEN <<2, 2>> ELSE <<5, 1>>])}

----------------------------------------------------------------------------
(* Initial values shared by the specifications *)

InitUi ==
    /\ preview_mode = FALSE
    /\ preview_hover_entry_id = None
    /\ group_buttons_by_size = TRUE
    /\ current_tool = "background"
    /\ drag = None

InitCfgDefault ==
    /\ mask_to_offset = None
    /\ tool_modules = ModulesFull
    /\ ctm_origins = OriginsFull

InitLogs ==
    /\ image_out = None
    /\ plan_log = None
    /\ load_log = <<>>
    /\ export_log = <<>>
    /\ timers = <<>>

InitEngine ==
    /\ op = "init"
    /\ rects_out = None
    /\ grid_out = None
    /\ mask_in = 0
    /\ offset_out = None
    /\ plan_out = None
    /\ InitLogs

InitOutputs ==
    /\ InitEngine
    /\ doc_in = None

\* GuiBuilderApp.__init__: one empty page, id 1
InitModel(n) ==
    /\ grid_n = n
    /\ pages = [p \in {1} |-> _new_page_state(1, n)]
    /\ current_page_id = 1
    /\ start_page_id = 1
    /\ next_uid = 1
    /\ next_entry_id = 1
    /\ selected_entry_id = None
    /\ gui_name = "unnamed_gui"
    /\ live_page = None

----------------------------------------------------------------------------
(* SpecCodec: the background codec on every grid of a bounded size *)

\* the grid size the codec is checked on (grid_n is 16 or 32 in the editor)
CodecN == 3

\* every painted background: each is reached by painting single cells
InitCodec ==
    /\ grid_n = CodecN
    /\ \E g \in [0 .. CodecN - 1 -> [0 .. CodecN - 1 -> BOOLEAN]] :
          pages = [p \in {1} |-> [_new_page_state(1, CodecN) EXCEPT !.background = g]]
    /\ current_page_id = 1
    /\ start_page_id = 1
    /\ next_uid = 1
    /\ next_entry_id = 1
    /\ selected_entry_id = None
    /\ gui_name = "unnamed_gui"
    /\ live_page = None
    /\ InitUi /\ InitCfgDefault /\ InitOutputs

\* to_json_dict's call for the current page
Compress ==
    /\ rects_out' = Some(_background_to_rects(pages[current_page_id].background, grid_n))
    /\ grid_out' = None
    /\ op' = "compress"
    /\ UNCHANGED <<modelVars, uiVars, cfgVars, ctmVars, planVars, ioVars>>

\* load_from_json_dict's call on a page's background_rects
Decompress ==
    /\ rects_out # None
    /\ grid_out' = Some(_background_from_rects(rects_out[1], grid_n))
    /\ op' = "decompress"
    /\ UNCHANGED <<modelVars, uiVars, cfgVars, ctmVars, planVars, ioVars, rects_out>>

NextCodec == Compress \/ Decompress

SpecCodec == InitCodec /\ [][NextCodec]_vars

CurrentBackground == pages[current_page_id].background

SetCells(g, n) == {<<x, y>> \in (0 .. n - 1) \X (0 .. n - 1) : g[y][x]}

\* C1: decompressing the rectangles of a grid gives the grid back, cell for
\* cell: _background_from_rects(_background_to_rects(g)) = g.
C1_RoundTrip ==
    grid_out # None =>
        \A y \in 0 .. grid_n - 1 : \A x \in 0 .. grid_n - 1 :
            grid_out[1][y][x] = CurrentBackground[y][x]

\* a round trip of a grid with set and unset cells that needs several rects
C1_Witness ==
    /\ grid_out # None
    /\ Len(rects_out[1]) >= 2
    /\ \E c \in (0 .. grid_n - 1) \X (0 .. grid_n - 1) : ~CurrentBackground[c[2]][c[1]]
    /\ \E i \in DOMAIN rects_out[1] : Cardinality(cells(rects_out[1][i])) >= 2

\* C2: the rectangles of _background_to_rects are pairwise disjoint, cover
\* set cells only, and every set cell lies in exactly one of them.
C2_DisjointExactCover ==
    rects_out # None =>
        LET rs == rects_out[1] IN
        /\ \A i, j \in DOMAIN rs : i # j => cells(rs[i]) \cap cells(rs[j]) = {}
        /\ \A i \in DOMAIN rs : cells(rs[i]) \subseteq SetCells(CurrentBackground, grid_n)
        /\ \A c \in SetCells(CurrentBackground, grid_n) :
              Cardinality({i \in DOMAIN rs : c \in cells(rs[i])}) = 1

\* an L-shaped background: a rect two rows high, and a second rect
C2_Witness ==
    /\ rects_out # None
    /\ Len(rects_out[1]) >= 2
    /\ \E i \in DOMAIN rects_out[1] : height(rects_out[1][i]) >= 2
    /\ \E i \in DOMAIN rects_out[1] : width(rects_out[1][i]) >= 2

----------------------------------------------------------------------------
(* SpecCtm: ctm_tile_offset on a range of masks, under each mask table *)

\* masks -MaxMask .. MaxMask are handed to ctm_tile_offset
MaxMask == 40

InitCtm ==
    /\ InitModel(16)
    /\ InitUi
    /\ mask_to_offset \in MaskTables
    /\ tool_modules = ModulesFull
    /\ ctm_origins = OriginsFull
    /\ op = "init"
    /\ rects_out = None
    /\ grid_out = None
    /\ mask_in \in -MaxMask .. MaxMask
    /\ offset_out = None
    /\ plan_out = None
    /\ doc_in = None
    /\ InitLogs

ResolveTile ==
    /\ offset_out' = Some(ctm_tile_offset(mask_in))
    /\ op' = "ctm_tile_offset"
    /\ UNCHANGED <<modelVars, uiVars, cfgVars, codecVars, planVars, ioVars, mask_in>>

\* the next cell's mask
NextMask ==
    /\ \E m \in -MaxMask .. MaxMask : mask_in' = m
    /\ offset_out' = None
    /\ op' = "mask"
    /\ UNCHANGED <<modelVars, uiVars, cfgVars, codecVars, planVars, ioVars>>

NextCtm == ResolveTile \/ NextMask

SpecCtm == InitCtm /\ [][NextCtm]_vars

\* the table of the claim, mask (bit0 = N, bit1 = E, bit2 = S, bit3 = W) -> (dx, dy)
ClaimedOffset(m) ==
    CASE m = 0 -> <<0, 0>>
      [] m = 2 -> <<1, 0>>  [] m = 10 -> <<2, 0>> [] m = 8 -> <<3, 0>>
      [] m = 4 -> <<0, 1>>  [] m = 5 -> <<0, 2>>  [] m = 1 -> <<0, 3>>
      [] m = 6 -> <<1, 1>>  [] m = 14 -> <<2, 1>> [] m = 12 -> <<3, 1>>
      [] m = 7 -> <<1, 2>>  [] m = 15 -> <<2, 2>> [] m = 13 -> <<3, 2>>
      [] m = 3 -> <<1, 3>>  [] m = 11 -> <<2, 3>> [] m = 9 -> <<3, 3>>

LowBits(mask) == mask % 16

----------------------------------------------------------------------------
(* SpecPlan: the sheet packer on the models loaded from a family of        *)
(* documents                                                               *)

\* the entries a document is made of: <<page, tool, x0, y0, x1, y1, locked, active>>
Catalogue ==
    << <<1, "button_standard", 0, 0, 7, 7, FALSE, FALSE>>,
       <<1, "button_standard", 0, 8, 8, 8, FALSE, FALSE>>,
       <<1, "button_toggle", 8, 0, 12, 4, FALSE, TRUE>>,
       <<2, "button_standard", 9, 9, 13, 13, TRUE, FALSE>>,
       <<2, "button_standard", 0, 9, 2, 10, FALSE, FALSE>>,
       <<1, "button_standard", 13, 5, 15, 6, FALSE, FALSE>>,
       <<2, "button_toggle", 15, 0, 15, 8, FALSE, FALSE>>,
       <<1, "text_slot", 0, 11, 1, 11, FALSE, FALSE>>,
       <<2, "button_toggle", 3, 9, 5, 10, TRUE, FALSE>>,
       <<2, "button_toggle", 0, 0, 7, 7, FALSE, FALSE>>,
       <<1, "button_standard", 1, 1, 2, 2, FALSE, FALSE>>,
       <<1, "button_toggle", 3, 1, 4, 2, FALSE, FALSE>>,
       <<1, "text_slot", 1, 3, 2, 3, FALSE, FALSE>>,
       <<1, "button_standard", 5, 5, 7, 7, TRUE, FALSE>> >>

\* the documents take their entries among the first PlanItems of the catalogue
PlanItems == 7

\* the entry object of catalogue item i: id and uid are i
EntryObj(i) ==
    LET c == Catalogue[i] IN
    [id |-> i, uid |-> Some(i), tool |-> c[2],
     rect |-> Rect(c[3], c[4], c[5], c[6]),
     active |-> c[8], label |-> "",
     meta |-> Meta(c[7], Some(Hover(FALSE, "")),
                   IF c[2] = "button_standard"
                   THEN Some(PageChange("none", 1, TRUE)) ELSE None)]

\* the items of S that lie on page p, as a list in ascending order
RECURSIVE ItemsOf(_, _, _)
ItemsOf(S, p, i) ==
    IF i > Len(Catalogue) THEN <<>>
    ELSE (IF i \in S /\ Catalogue[i][1] = p THEN <<EntryObj(i)>> ELSE <<>>)
         \o ItemsOf(S, p, i + 1)

\* a version-3 document of two pages holding the catalogue items S
PlanDoc(S) ==
    [version |-> 3, grid_n |-> 16, gui_name |-> None,
     pages |-> Some([p \in 1 .. 2 |->
                 [page_id |-> Some(p), background_rects |-> Some(<<>>),
                  background |-> None, entries |-> Some(ItemsOf(S, p, 1))]]),
     background |-> None, entries |-> None,
     next_uid |-> Some(Len(Catalogue) + 1), start_page_id |-> Some(1)]

InitPlan ==
    /\ InitModel(16)
    /\ InitUi
    /\ InitCfgDefault
    /\ InitEngine
    /\ \E S \in SUBSET (1 .. PlanItems) : doc_in = Some(PlanDoc(S))

\* the model fields := the record m
SetModel(m) ==
    /\ grid_n' = m.grid_n
    /\ pages' = m.pages
    /\ current_page_id' = m.current_page_id
    /\ start_page_id' = m.start_page_id
    /\ next_uid' = m.next_uid
    /\ next_entry_id' = m.next_entry_id
    /\ selected_entry_id' = m.selected_entry_id
    /\ gui_name' = m.gui_name
    /\ live_page' = m.live_page

\* load_json: load_from_json_dict on the document of the file
LoadJson ==
    /\ doc_in # None
    /\ SetModel(load_from_json_dict(CurrentModel, doc_in[1]).model)
    /\ op' = "load"
    /\ plan_out' = None
    /\ UNCHANGED <<uiVars, cfgVars, codecVars, ctmVars, ioVars>>

\* the "group buttons by size" checkbox
ToggleGroupBySize ==
    /\ group_buttons_by_size' = ~group_buttons_by_size
    /\ op' = "group"
    /\ plan_out' = None
    /\ UNCHANGED <<modelVars, cfgVars, codecVars, ctmVars, ioVars, preview_mode,
                   preview_hover_entry_id, current_tool, drag>>

\* export_textures' call of the planner
PlanLayout ==
    /\ plan_out' = Some(_plan_component_sheet_layout(pages, group_buttons_by_size))
    /\ op' = "plan"
    /\ UNCHANGED <<modelVars, uiVars, cfgVars, codecVars, ctmVars, ioVars>>

NextPlan == LoadJson \/ ToggleGroupBySize \/ PlanLayout

SpecPlan == InitPlan /\ [][NextPlan]_vars


\* what the claims about a plan read off it
Plan == plan_out[1]

\* the entry recorded as the representative of a block key
RepEntry(bk) ==
    LET k == CHOOSE k \in DOMAIN Plan.block_key_to_rep : Plan.block_key_to_rep[k][1] = bk
        rep == Plan.block_key_to_rep[k][2]
        es == pages[rep[1]].entries
    IN es[CHOOSE j \in DOMAIN es : es[j].entry_id = rep[2]]

\* the pixel size of a block: twice its representative's size in each direction
BlockW(bk) == 2 * width(RepEntry(bk).rect) * TILE_PX
BlockH(bk) == 2 * height(RepEntry(bk).rect) * TILE_PX

CeilDiv(a, b) == (a + b - 1) \div b

\* the tiles a placement covers
PlacementTiles(pl) ==
    {<<tx, ty>> : tx \in (pl.x \div TILE_PX) .. (pl.x \div TILE_PX) + CeilDiv(BlockW(pl.block_key), TILE_PX) - 1,
                  ty \in (pl.y \div TILE_PX) .. (pl.y \div TILE_PX) + CeilDiv(BlockH(pl.block_key), TILE_PX) - 1}

Oversized(bk) == BlockW(bk) > EXPORT_SHEET_PX \/ BlockH(bk) > EXPORT_SHEET_PX

\* the block keys of the entries that are exported as textures
ExportedKeys ==
    {BlockKey(pages[p].entries[k], group_buttons_by_size) :
        <<p, k>> \in {q \in (DOMAIN pages) \X (1 .. 2 * Len(Catalogue)) :
                        /\ q[2] \in DOMAIN pages[q[1]].entries
                        /\ IncludeInManifest(pages[q[1]].entries[q[2]])
                        /\ _entry_requires_component_export(pages[q[1]].entries[q[2]])}}

\* C3: no two placements on the same sheet of a plan cover a common tile.
C3_NoOverlap ==
    plan_out # None =>
        \A s \in DOMAIN Plan.sheets :
            \A i, j \in DOMAIN Plan.sheets[s].placements :
                i # j => PlacementTiles(Plan.sheets[s].placements[i])
                           \cap PlacementTiles(Plan.sheets[s].placements[j]) = {}

\* a sheet that holds three blocks, not all of one size
C3_Witness ==
    /\ plan_out # None
    /\ \E s \in DOMAIN Plan.sheets :
          /\ Len(Plan.sheets[s].placements) >= 3
          /\ \E i, j \in DOMAIN Plan.sheets[s].placements :
                BlockW(Plan.sheets[s].placements[i].block_key)
                    # BlockW(Plan.sheets[s].placements[j].block_key)

\* C4: every placement lies inside its sheet, and a block larger than
\* EXPORT_SHEET_PX lies on a sheet of exactly the block's size.
C4_WithinSheet ==
    plan_out # None =>
        \A s \in DOMAIN Plan.sheets :
            \A i \in DOMAIN Plan.sheets[s].placements :
                LET pl == Plan.sheets[s].placements[i]
                    sh == Plan.sheets[s]
                IN /\ 0 <= pl.x /\ 0 <= pl.y
                   /\ pl.x + BlockW(pl.block_key) <= sh.w
                   /\ pl.y + BlockH(pl.block_key) <= sh.h
                   /\ Oversized(pl.block_key) =>
                          sh.w = BlockW(pl.block_key) /\ sh.h = BlockH(pl.block_key)

\* a plan with an oversized block's sheet and a block away from the origin of
\* an ordinary sheet
C4_Witness ==
    /\ plan_out # None
    /\ \E s \in DOMAIN Plan.sheets :
          Oversized(Plan.sheets[s].placements[1].block_key)
    /\ \E s \in DOMAIN Plan.sheets : \E i \in DOMAIN Plan.sheets[s].placements :
          /\ Plan.sheets[s].placements[i].x > 0
          /\ Plan.sheets[s].placements[i].y > 0

\* C5: an oversized block lies at (0,0) on a sheet that holds no other
\* placement, whatever was processed after it.
C5_OversizedAlone ==
    plan_out # None =>
        \A s \in DOMAIN Plan.sheets :
            \A i \in DOMAIN Plan.sheets[s].placements :
                LET pl == Plan.sheets[s].placements[i] IN
                Oversized(pl.block_key) =>
                    /\ pl.x = 0 /\ pl.y = 0
                    /\ Len(Plan.sheets[s].placements) = 1

\* an oversized block's sheet followed by an ordinary sheet with two blocks:
\* both were processed after the oversized block and passed its sheet over
C5_Witness ==
    /\ plan_out # None
    /\ \E t, u \in DOMAIN Plan.sheets :
          /\ t < u
          /\ Oversized(Plan.sheets[t].placements[1].block_key)
          /\ Len(Plan.sheets[u].placements) >= 2

\* the <<sheet, position>> pairs at which a block key is placed
PlacedAt(bk) ==
    {q \in (DOMAIN Plan.sheets) \X (1 .. Len(Catalogue)) :
        /\ q[2] \in DOMAIN Plan.sheets[q[1]].placements
        /\ Plan.sheets[q[1]].placements[q[2]].block_key = bk}

\* C7: every block key of an exported entry has exactly one placement, on
\* exactly one sheet, and placement_index records it.
C7_EveryBlockPlaced ==
    plan_out # None =>
        /\ DOMAIN Plan.placement_index = ExportedKeys
        /\ \A bk \in ExportedKeys :
              /\ Cardinality(PlacedAt(bk)) = 1
              /\ \A q \in PlacedAt(bk) :
                    LET pl == Plan.sheets[q[1]].placements[q[2]] IN
                    Plan.placement_index[bk] = [sheet |-> q[1], x |-> pl.x, y |-> pl.y]

\* five blocks on four sheets: sheets were opened because earlier ones were full
C7_Witness ==
    /\ plan_out # None
    /\ Cardinality(ExportedKeys) >= 5
    /\ Len(Plan.sheets) >= 4
    /\ \E s \in DOMAIN Plan.sheets : Len(Plan.sheets[s].placements) >= 2


----------------------------------------------------------------------------
(* Editor handlers that change what is shown: pages, preview mode, hover *)

\* the page behind self.background, self.entries and self.cell_to_entry
LivePage == LivePageOf(CurrentModel)

\* _entry_at_cell on the current page: Optional entry
_entry_at_cell(cx, cy) ==
    LET st == LivePage
        eid == st.cell_to_entry[cy][cx]
    IN IF eid = None THEN None
       ELSE IF \E k \in DOMAIN st.entries : st.entries[k].entry_id = eid[1]
            THEN Some(st.entries[CHOOSE k \in DOMAIN st.entries :
                                    st.entries[k].entry_id = eid[1]])
            ELSE None

\* mutant of _sync_current_page_back: the page keeps the next_entry_id it had
_sync_current_page_back_skipped(pgs) == pgs

\* st.next_entry_id = self.next_entry_id on the current page
_sync_current_page_back(pgs) ==
    [pgs EXCEPT ![current_page_id].next_entry_id = next_entry_id]

\* every standard button of the page made inactive
_deactivate_non_toggle_buttons(pgs, page_id) ==
    IF page_id \notin DOMAIN pgs THEN pgs
    ELSE [pgs EXCEPT ![page_id].entries =
             [k \in DOMAIN @ |->
                 IF @[k].tool = "button_standard"
                 THEN [@[k] EXCEPT !.active = FALSE] ELSE @[k]]]

\* goto_page(page_id) once self.pages is pgs; the sync raises KeyError when
\* the current page is gone, before anything else is written
GotoPage(pgs, page_id) ==
    IF page_id \notin DOMAIN pgs \/ current_page_id \notin DOMAIN pgs
    THEN /\ pages' = pgs
         /\ UNCHANGED <<current_page_id, next_entry_id, selected_entry_id,
                        live_page, preview_hover_entry_id>>
    ELSE LET synced == _sync_current_page_back(pgs)
         IN /\ pages' = _deactivate_non_toggle_buttons(synced, page_id)
            /\ current_page_id' = page_id
            /\ next_entry_id' = synced[page_id].next_entry_id
            /\ selected_entry_id' = None
            /\ live_page' = None
            /\ preview_hover_entry_id' = None

\* goto_page(page_id)
goto_page(page_id) ==
    /\ op' = "goto_page"
    /\ GotoPage(pages, page_id)
    /\ UNCHANGED <<grid_n, start_page_id, next_uid, gui_name,
                   preview_mode, group_buttons_by_size, current_tool, drag>>
    /\ UNCHANGED <<cfgVars, codecVars, ctmVars, planVars, ioVars>>

\* toggle_preview: _set_preview_mode(not preview_mode)
toggle_preview ==
    /\ preview_mode' = ~preview_mode
    /\ preview_hover_entry_id' = None
    /\ op' = "toggle_preview"
    /\ UNCHANGED <<modelVars, group_buttons_by_size, current_tool, drag,
                   cfgVars, codecVars, ctmVars, planVars, ioVars>>

\* on_motion over the cell (cx, cy) of the canvas
on_motion(cx, cy) ==
    /\ LET ent == _entry_at_cell(cx, cy)
       IN preview_hover_entry_id' =
             IF preview_mode /\ ent # None THEN Some(ent[1].entry_id) ELSE None
    /\ op' = "on_motion"
    /\ UNCHANGED <<modelVars, preview_mode, group_buttons_by_size,
                   current_tool, drag, cfgVars,
                   codecVars, ctmVars, planVars, ioVars>>

----------------------------------------------------------------------------
(* SpecReplan: the planner called again after the editor's display state   *)
(* has changed                                                             *)

\* the catalogue items the documents are made of
ReplanPool == <<3, 5, 6, 9, 4>>

\* the documents take their entries among the first ReplanItems of the pool
ReplanItems == 1

\* the cells the pointer is moved over
PointerCells == {<<8, 0>>, <<0, 9>>, <<14, 14>>}

\* what a planner call can read besides the pages and the policy flag
Ambient == <<preview_mode, preview_hover_entry_id, current_page_id, selected_entry_id>>

InitReplan ==
    /\ InitModel(16)
    /\ InitUi
    /\ InitCfgDefault
    /\ InitEngine
    /\ \E S \in SUBSET {ReplanPool[i] : i \in 1 .. ReplanItems} :
          doc_in = Some(PlanDoc(S))

\* inject_into_texture_pack's call of the planner; the first call is kept
\* with its inputs
InjectPlanLayout ==
    LET plan == _plan_component_sheet_layout(pages, group_buttons_by_size)
    IN /\ plan_out' = Some(plan)
       /\ plan_log' = IF plan_log # None THEN plan_log
                      ELSE Some([pages |-> pages, by_size |-> group_buttons_by_size,
                                 ambient |-> Ambient, plan |-> plan])
       /\ op' = "plan"
       /\ UNCHANGED <<modelVars, uiVars, cfgVars, codecVars, ctmVars, doc_in,
                      image_out, load_log, export_log, timers>>

NextReplan ==
    \/ LoadJson
    \/ ToggleGroupBySize
    \/ \E p \in 1 .. 3 : goto_page(p)
    \/ toggle_preview
    \/ \E c \in PointerCells : on_motion(c[1], c[2])
    \/ InjectPlanLayout

SpecReplan == InitReplan /\ [][NextReplan]_vars

\* a planner call has just returned, for the inputs of the call kept
SameInputAgain ==
    /\ op = "plan"
    /\ plan_log # None
    /\ plan_log[1].pages = pages
    /\ plan_log[1].by_size = group_buttons_by_size

----------------------------------------------------------------------------
(* Block composer and flat page renderer: app.py                           *)
(* _compose_entry_variant_image, _compose_component_block,                 *)
(* _blit_ctm_cellset_to_image, _render_flat_background_page.               *)
(* An image is kept as the tile copies made into it: each copy is          *)
(* [from, to], the pixel corners in the atlas and in the image.            *)

\* a or b on Optional values
Or(a, b) == IF a # None THEN a ELSE b

\* mutant of CellSetOf: membership is taken on the whole model, every painted
\* cell and every cell of an entry
CellSetOnGrid(r) ==
    cells(r)
    \cup UNION {UNION {cells(pages[p].entries[k].rect) : k \in DOMAIN pages[p].entries} :
                   p \in DOMAIN pages}
    \cup UNION {{c \in (0 .. grid_n - 1) \X (0 .. grid_n - 1) :
                    pages[p].background[c[2]][c[1]]} : p \in DOMAIN pages}

\* cell_set = set(r.cells())
CellSetOf(r) == cells(r)

\* one cell of a CTM-rendered cell set: the atlas tile at the module origin
\* plus the offset of the cell's mask, copied to the pixel position to
TileCopy(origin, cell_set, c, to) ==
    LET mask == _ctm_mask(cell_set, c[1], c[2])
        d == ctm_tile_offset(mask)
    IN [from |-> <<(origin[1] + d[1]) * TILE_PX, (origin[2] + d[2]) * TILE_PX>>,
        to |-> to]

\* Optional image [key, w, h, copies]; state_key is str(module), and no
\* module (None) names no origin
_compose_entry_variant_image(ent, state_key) ==
    IF state_key = None \/ state_key[1] \notin DOMAIN ctm_origins THEN None
    ELSE LET r == normalized(ent.rect)
             out_w == width(r) * TILE_PX
             out_h == height(r) * TILE_PX
             origin == ctm_origins[state_key[1]]
             cell_set == CellSetOf(r)
         IN IF out_w <= 0 \/ out_h <= 0 THEN None
            ELSE Some([key |-> state_key[1], w |-> out_w, h |-> out_h,
                       copies |-> {TileCopy(origin, cell_set, c,
                                            <<(c[1] - r.x0) * TILE_PX,
                                              (c[2] - r.y0) * TILE_PX>>) :
                                      c \in cells(r)}])

\* mutant of Block2x2: the hover image and the locked (pressed) image are
\* copied to each other's corner
Block2x2Swapped(tl, bl, tr, br) ==
    LET w == tl.w
        h == tl.h
    IN Some([w |-> 2 * w, h |-> 2 * h,
             parts |-> << [to |-> <<0, 0>>, img |-> tl], [to |-> <<0, h>>, img |-> tr],
                          [to |-> <<w, 0>>, img |-> bl], [to |-> <<w, h>>, img |-> br] >>])

\* the 2x2 block [w, h, parts]: parts are the variant images copied in, with
\* the corner each is copied to
Block2x2(tl, bl, tr, br) ==
    LET w == tl.w
        h == tl.h
    IN Some([w |-> 2 * w, h |-> 2 * h,
             parts |-> << [to |-> <<0, 0>>, img |-> tl], [to |-> <<0, h>>, img |-> bl],
                          [to |-> <<w, 0>>, img |-> tr], [to |-> <<w, h>>, img |-> br] >>])

_compose_component_block(ent) ==
    LET base_module == IF ent.tool # "button_toggle" THEN ModuleOf(ent.tool, "base")
                       ELSE Or(ModuleOf(ent.tool, "unpressed"), ModuleOf(ent.tool, "base"))
    IN IF base_module = None THEN None
       ELSE IF ent.tool = "button_standard"
       THEN LET hover_module == Or(ModuleOf(ent.tool, "hover"), base_module)
                locked_module == Or(ModuleOf(ent.tool, "locked"), base_module)
                locked_hover_module == Or(ModuleOf(ent.tool, "locked_hover"), locked_module)
                base_img == _compose_entry_variant_image(ent, base_module)
            IN IF base_img = None THEN None
               ELSE LET hover_img == Or(_compose_entry_variant_image(ent, hover_module), base_img)
                        locked_img == Or(_compose_entry_variant_image(ent, locked_module), base_img)
                        locked_hover_img ==
                            Or(_compose_entry_variant_image(ent, locked_hover_module), locked_img)
                    IN Block2x2(base_img[1], hover_img[1], locked_img[1], locked_hover_img[1])
       ELSE IF ent.tool = "button_toggle"
       THEN LET pressed_module == Or(ModuleOf(ent.tool, "base"), base_module)
                unpressed_module == base_module
                hover_module == Or(IF ent.active THEN ModuleOf(ent.tool, "hover_base")
                                   ELSE ModuleOf(ent.tool, "hover_unpressed"), base_module)
                disabled_module ==
                    IF ent.meta.locked
                    THEN (IF ent.active THEN ModuleOf(ent.tool, "pressed_locked")
                          ELSE ModuleOf(ent.tool, "unpressed_locked"))
                    ELSE Or(ModuleOf(ent.tool, "pressed_locked"),
                            Or(ModuleOf(ent.tool, "unpressed_locked"), pressed_module))
                unpressed_img == _compose_entry_variant_image(ent, unpressed_module)
            IN IF unpressed_img = None THEN None
               ELSE LET hover_img == Or(_compose_entry_variant_image(ent, hover_module), unpressed_img)
                        pressed_img == Or(_compose_entry_variant_image(ent, pressed_module), unpressed_img)
                        disabled_img == Or(_compose_entry_variant_image(ent, disabled_module), pressed_img)
                    IN Block2x2(unpressed_img[1], hover_img[1], pressed_img[1], disabled_img[1])
       ELSE LET base_img == _compose_entry_variant_image(ent, base_module)
            IN IF base_img = None THEN None
               ELSE Block2x2(base_img[1], base_img[1], base_img[1], base_img[1])

\* the layer a blit adds to a page image, [key, owner, copies]: owner is the
\* entry the cell set was taken from, None for the painted background; no
\* layer when the key has no origin
_blit_ctm_cellset_to_image(cell_set, state_key, owner) ==
    IF state_key \notin DOMAIN ctm_origins THEN <<>>
    ELSE << [key |-> state_key, owner |-> owner,
             copies |-> {TileCopy(ctm_origins[state_key], cell_set, c,
                                  <<c[1] * TILE_PX, c[2] * TILE_PX>>) : c \in cell_set}] >>

\* the button_background layers, one blit per button
RECURSIVE ButtonFills(_, _)
ButtonFills(entries, i) ==
    IF i > Len(entries) THEN <<>>
    ELSE LET ent == entries[i]
             r == normalized(ent.rect)
         IN (IF ent.tool \notin {"button_standard", "button_toggle"} THEN <<>>
             ELSE _blit_ctm_cellset_to_image(CellSetOf(r), "button_background",
                                             Some(ent.entry_id)))
            \o ButtonFills(entries, i + 1)

\* the static entries baked in, one blit per entry
RECURSIVE StaticBakes(_, _)
StaticBakes(entries, i) ==
    IF i > Len(entries) THEN <<>>
    ELSE LET ent == entries[i]
             r == normalized(ent.rect)
             base_module == ModuleOf(ent.tool, "base")
         IN (IF \/ ent.tool = "background"
                \/ _entry_requires_component_export(ent)
                \/ base_module = None
             THEN <<>>
             ELSE _blit_ctm_cellset_to_image(CellSetOf(r), base_module[1],
                                             Some(ent.entry_id)))
            \o StaticBakes(entries, i + 1)

\* Optional list of layers; the first is the flat fill of the painted cells
\* (no Background.png in the skin pack)
_render_flat_background_page(pgs, page_id) ==
    IF page_id \notin DOMAIN pgs THEN None
    ELSE LET page == pgs[page_id]
             bg_cells == {c \in (0 .. grid_n - 1) \X (0 .. grid_n - 1) :
                             page.background[c[2]][c[1]]}
         IN Some(<< [key |-> "solid", owner |-> None,
                     copies |-> {[from |-> <<0, 0>>,
                                  to |-> <<c[1] * TILE_PX, c[2] * TILE_PX>>] : c \in bg_cells}] >>
                 \o (IF bg_cells = {} THEN <<>>
                     ELSE _blit_ctm_cellset_to_image(bg_cells, "background_border", None))
                 \o ButtonFills(page.entries, 1)
                 \o StaticBakes(page.entries, 1))

\* Optional entry: pages.get(pid), then entries.get(entry_id)
EntryById(pgs, pid, entry_id) ==
    IF pid \notin DOMAIN pgs THEN None
    ELSE LET es == pgs[pid].entries
         IN IF \E k \in DOMAIN es : es[k].entry_id = entry_id
            THEN Some(es[CHOOSE k \in DOMAIN es : es[k].entry_id = entry_id])
            ELSE None

\* rep_map.get(bk): Optional <<pid, entry_id>> of the block's representative
RepOf(plan, bk) ==
    LET reps == plan.block_key_to_rep
    IN IF \E k \in DOMAIN reps : reps[k][1] = bk
       THEN Some(reps[CHOOSE k \in DOMAIN reps : reps[k][1] = bk][2])
       ELSE None

\* the blocks copied into one sheet, in placement order
RECURSIVE SheetBlocks(_, _, _, _)
SheetBlocks(pgs, plan, placements, i) ==
    IF i > Len(placements) THEN <<>>
    ELSE LET pl == placements[i]
             rep == RepOf(plan, pl.block_key)
             ent == IF rep = None THEN None ELSE EntryById(pgs, rep[1][1], rep[1][2])
             block_img == IF ent = None THEN None ELSE _compose_component_block(ent[1])
         IN (IF block_img = None THEN <<>>
             ELSE << [x |-> pl.x, y |-> pl.y, rep |-> rep[1], block |-> block_img[1]] >>)
            \o SheetBlocks(pgs, plan, placements, i + 1)

\* the images written: sheet_<i>.png as the blocks copied into it,
\* background_page_<pid>.png as its layers
_export_component_sheets_with_writer(pgs, plan) ==
    [sheets |-> [s \in DOMAIN plan.sheets |->
                    SheetBlocks(pgs, plan, plan.sheets[s].placements, 1)],
     backgrounds |-> [pid \in DOMAIN pgs |-> _render_flat_background_page(pgs, pid)[1]]]


----------------------------------------------------------------------------
(* SpecRender: the images exported for the models loaded from documents    *)
(* whose entries touch each other and the painted background               *)

\* the catalogue items the documents are made of: a button, a toggle to its
\* east, a text slot to its south, a button with an inner cell
RenderPool == <<11, 12, 13, 14>>

\* the documents take their entries among the first RenderItems of the pool
RenderItems == 3

\* the painted backgrounds of page 1: none, or a block under the entries
RenderBackgrounds == {<<>>, <<Rect(0, 0, 5, 4)>>}

RenderDoc(S, B) ==
    LET d == PlanDoc(S)
    IN [d EXCEPT !.pages = Some([p \in 1 .. 2 |->
                     IF p = 1 THEN [d.pages[1][p] EXCEPT !.background_rects = Some(B)]
                     ELSE d.pages[1][p]])]

InitRender ==
    /\ InitModel(16)
    /\ InitUi
    /\ mask_to_offset \in MaskTables
    /\ tool_modules \in {ModulesFull, ModulesPlain}
    /\ ctm_origins = OriginsFull
    /\ InitEngine
    /\ \E S \in SUBSET {RenderPool[i] : i \in 1 .. RenderItems}, B \in RenderBackgrounds :
          doc_in = Some(RenderDoc(S, B))

\* the skin pack selected in the dropdown
SkinPack == "default"

\* the PNGs _export_component_sheets_with_writer writes for one skin pack, in
\* order: the sheets of the plan, then the background of every page
PngNames(pgs, plan) ==
    [i \in 1 .. Len(plan.sheets) |-> <<"sheet", i>>]
    \o [k \in 1 .. Len(_sorted_page_ids(pgs)) |->
           <<"background_page", _sorted_page_ids(pgs)[k]>>]

\* a call of _export_component_sheets_with_writer returns True.  fail tells
\* what goes wrong for the pack: None nothing, Some(0) Modules.png is missing
\* or cannot be read, Some(k) the k-th write_png raises
PackOk(names, fail) == fail = None \/ fail[1] > Len(names)

\* what the call leaves, one event for each write tried
PackEvents(pack, names, fail) ==
    IF fail = Some(0)
    THEN <<[what |-> "atlas", pack |-> pack, name |-> <<>>, ok |-> FALSE,
            skin_packs |-> <<>>]>>
    ELSE [i \in 1 .. (IF PackOk(names, fail) THEN Len(names) ELSE fail[1]) |->
             [what |-> "png", pack |-> pack, name |-> names[i],
              ok |-> fail = None \/ i < fail[1], skin_packs |-> <<>>]]

\* the loop over the skin packs; it goes on after a pack that failed unless
\* stop is set
RECURSIVE LoopEvents(_, _, _, _, _)
LoopEvents(packs, names, fails, i, stop) ==
    IF i > Len(packs) THEN <<>>
    ELSE PackEvents(packs[i], names, fails[i])
         \o (IF stop /\ ~PackOk(names, fails[i]) THEN <<>>
             ELSE LoopEvents(packs, names, fails, i + 1, stop))

\* _write_gui_manifest with the skin pack folders listed
ManifestEvent(packs) ==
    [what |-> "manifest", pack |-> "", name |-> <<"gui_manifest">>, ok |-> TRUE,
     skin_packs |-> packs]

\* export_textures for the skin packs to export (the selected one, then the
\* extra ones): the export folder is emptied, the plan is made, every pack is
\* exported, and the manifest is written when no pack failed.  image_out
\* keeps the images of the first pack when all of them were written.
export_textures(packs, fails) ==
    \E plan \in {_plan_component_sheet_layout(pages, group_buttons_by_size)} :
    \E names \in {PngNames(pages, plan)} :
       /\ plan_out' = Some(plan)
       /\ image_out' = IF PackOk(names, fails[1])
                       THEN Some(_export_component_sheets_with_writer(pages, plan))
                       ELSE image_out
       /\ export_log' = LoopEvents(packs, names, fails, 1, FALSE)
                        \o (IF \E i \in DOMAIN packs : ~PackOk(names, fails[i])
                            THEN <<>> ELSE <<ManifestEvent(packs)>>)
       /\ op' = "export"
       /\ UNCHANGED <<modelVars, uiVars, cfgVars, codecVars, ctmVars, doc_in,
                      plan_log, load_log, timers>>

\* export_textures with one skin pack selected, no extra pack, and nothing
\* failing
ExportSelectedPack ==
    /\ SkinPack # "(none)"
    /\ export_textures(<<SkinPack>>, <<None>>)

NextRender == LoadJson \/ ToggleGroupBySize \/ ExportSelectedPack

SpecRender == InitRender /\ [][NextRender]_vars

\* the mask of the cell c of the rectangle r by its position in r alone:
\* a neighbour is inside r unless c is on that edge
PositionMask(r, c) ==
    (IF c[2] > r.y0 THEN 1 ELSE 0) + (IF c[1] < r.x1 THEN 2 ELSE 0)
    + (IF c[2] < r.y1 THEN 4 ELSE 0) + (IF c[1] > r.x0 THEN 8 ELSE 0)

\* the copies of an entry's cells when each tile is the one of the cell's
\* position in r; at is the cell that lands on the image's corner
PositionCopies(key, r, at) ==
    {[from |-> <<(ctm_origins[key][1] + ctm_tile_offset(PositionMask(r, c))[1]) * TILE_PX,
                 (ctm_origins[key][2] + ctm_tile_offset(PositionMask(r, c))[2]) * TILE_PX>>,
      to |-> <<(c[1] - at[1]) * TILE_PX, (c[2] - at[2]) * TILE_PX>>] :
        c \in {<<x, y>> : x \in r.x0 .. r.x1, y \in r.y0 .. r.y1}}

\* the layers of the exported page backgrounds drawn for an entry, with the page
EntryLayers ==
    {<<pid, i>> \in (DOMAIN image_out[1].backgrounds) \X (1 .. 2 * Len(Catalogue) + 2) :
        /\ i \in DOMAIN image_out[1].backgrounds[pid]
        /\ image_out[1].backgrounds[pid][i].owner # None}

\* the variant images of the exported blocks, with the representative entry
BlockParts ==
    {<<s, j, q>> \in (DOMAIN image_out[1].sheets) \X (1 .. Len(Catalogue)) \X (1 .. 4) :
        j \in DOMAIN image_out[1].sheets[s]}

\* C9: in every exported image, the tile copied for a cell of an entry is
\* the one of the cell's position inside the entry's own rectangle, both in
\* the variant images of its block and in the page background it is baked
\* into, whatever entries or painted cells lie next to it.
C9_OwnRectOnly ==
    image_out # None =>
        /\ \A l \in EntryLayers :
              LET layer == image_out[1].backgrounds[l[1]][l[2]]
                  ent == EntryById(pages, l[1], layer.owner[1])[1]
                  r == normalized(ent.rect)
              IN layer.copies = PositionCopies(layer.key, r, <<0, 0>>)
        /\ \A b \in BlockParts :
              LET placed == image_out[1].sheets[b[1]][b[2]]
                  img == placed.block.parts[b[3]].img
                  ent == EntryById(pages, placed.rep[1], placed.rep[2])[1]
                  r == normalized(ent.rect)
              IN img.copies = PositionCopies(img.key, r, <<r.x0, r.y0>>)

\* two entries of page 1 share an edge
Touching(a, b) ==
    \E c \in cells(a.rect), d \in cells(b.rect) :
        (c[1] - d[1]) * (c[1] - d[1]) + (c[2] - d[2]) * (c[2] - d[2]) = 1

\* an export where an entry with a block, and an entry baked into the page,
\* each touch another entry and lie on painted cells
C9_Witness ==
    /\ image_out # None
    /\ \E b \in BlockParts, k \in DOMAIN pages[1].entries :
          LET placed == image_out[1].sheets[b[1]][b[2]]
              ent == EntryById(pages, placed.rep[1], placed.rep[2])[1]
          IN /\ placed.rep[1] = 1
             /\ pages[1].entries[k].entry_id # ent.entry_id
             /\ Touching(ent, pages[1].entries[k])
             /\ pages[1].background[ent.rect.y0][ent.rect.x0]
    /\ \E l \in EntryLayers, k \in DOMAIN pages[1].entries :
          LET layer == image_out[1].backgrounds[l[1]][l[2]]
              ent == EntryById(pages, l[1], layer.owner[1])[1]
          IN /\ l[1] = 1
             /\ layer.key = "text_slot"
             /\ pages[1].entries[k].entry_id # ent.entry_id
             /\ Touching(ent, pages[1].entries[k])
             /\ pages[1].background[ent.rect.y0][ent.rect.x0]


----------------------------------------------------------------------------
(* SpecLegacy: a document of an earlier schema version and its version-3   *)
(* equivalent, both loaded                                                 *)

\* the cells a legacy background is painted on
LegacyCellPool == << <<0, 0>>, <<1, 0>>, <<1, 1>>, <<15, 15>>, <<0, 1>> >>

\* the legacy backgrounds paint a subset of the first LegacyCells of the pool
LegacyCells == 4

LegacyGrids ==
    {[y \in 0 .. 15 |-> [x \in 0 .. 15 |-> <<x, y>> \in P]] :
        P \in SUBSET {LegacyCellPool[i] : i \in 1 .. LegacyCells}}

\* an entry object as the earlier versions wrote it: no uid, and the tool
\* name of the time
LegacyObj(i, tool) == [EntryObj(i) EXCEPT !.uid = None, !.tool = tool]

LegacyEntryLists ==
    {<<>>,
     <<LegacyObj(11, "button_press")>>,
     <<LegacyObj(13, "text_slot"), LegacyObj(11, "button_standard")>>,
     <<LegacyObj(12, "button_toggle"), LegacyObj(14, "button_press"),
       LegacyObj(13, "label")>>}

\* version 1 or 2: the background grid and the entries at the top level
LegacyDoc(v, g, E) ==
    [version |-> v, grid_n |-> 16, gui_name |-> None, pages |-> None,
     background |-> Some(g), entries |-> Some(E),
     next_uid |-> None, start_page_id |-> None]

\* the version-3 document of a legacy document: one page, id 1, with the
\* background as to_json_dict writes it
Wrapped(d) ==
    [version |-> 3, grid_n |-> d.grid_n, gui_name |-> d.gui_name,
     pages |-> Some(<<[page_id |-> Some(1),
                       background_rects |->
                           Some(_background_to_rects(d.background[1], d.grid_n)),
                       background |-> None,
                       entries |-> d.entries]>>),
     background |-> None, entries |-> None,
     next_uid |-> d.next_uid, start_page_id |-> d.start_page_id]

\* at most MaxLoads loads are made
MaxLoads == 2

InitLegacy ==
    /\ InitModel(16)
    /\ InitUi
    /\ InitCfgDefault
    /\ InitEngine
    /\ \E v \in {1, 2}, g \in LegacyGrids, E \in LegacyEntryLists :
          doc_in = Some(LegacyDoc(v, g, E))

\* load_json on a file holding the document d; the document is kept with
\* the model before the load and the model the load left
load_json(d) ==
    /\ Len(load_log) < MaxLoads
    /\ LET got == load_from_json_dict(CurrentModel, d)
       IN /\ SetModel(got.model)
          /\ load_log' = Append(load_log, [doc |-> d, raised |-> got.raised,
                                           before |-> CurrentModel,
                                           model |-> got.model])
    /\ op' = "load"
    /\ plan_out' = None
    /\ UNCHANGED <<uiVars, cfgVars, codecVars, ctmVars, doc_in, image_out, plan_log,
                   export_log, timers>>

\* the file picked is the legacy document
LoadLegacyFile ==
    /\ doc_in # None
    /\ load_json(doc_in[1])

\* the file picked is its version-3 equivalent
LoadWrappedFile ==
    /\ doc_in # None
    /\ load_json(Wrapped(doc_in[1]))

NextLegacy == LoadLegacyFile \/ LoadWrappedFile

SpecLegacy == InitLegacy /\ [][NextLegacy]_vars

\* the loads i and j are of a legacy document and of its version-3 equivalent
LegacyPair(i, j) ==
    /\ load_log[i].doc.pages = None
    /\ load_log[i].doc.version \in {1, 2}
    /\ load_log[j].doc = Wrapped(load_log[i].doc)

\* C10: loading a version 1 or 2 document (top-level boolean background and
\* entries, no pages list) succeeds and leaves the model (pages, backgrounds,
\* entries, cell_to_entry, next_entry_id, start and current page, next_uid)
\* that loading the version-3 document with the one page 1, the compressed
\* background and the same entries leaves.
C10_LegacyEquivalent ==
    \A i, j \in DOMAIN load_log :
        LegacyPair(i, j) =>
            /\ ~load_log[i].raised
            /\ ~load_log[j].raised
            /\ load_log[i].model = load_log[j].model

\* both documents loaded, of a background of two rectangles or more and of
\* entries that include one under the deprecated tool name
C10_Witness ==
    \E i, j \in DOMAIN load_log :
        /\ LegacyPair(i, j)
        /\ Len(load_log[j].doc.pages[1][1].background_rects[1]) >= 2
        /\ \E k \in DOMAIN load_log[i].doc.entries[1] :
              load_log[i].doc.entries[1][k].tool = "button_press"
        /\ Len(load_log[i].model.pages[1].entries) >= 1
        /\ load_log[i].model = CurrentModel


----------------------------------------------------------------------------
(* SpecLoad: documents with every mix of stored uids, with deprecated and  *)
(* unknown tool names, and documents the load rejects, loaded over the     *)
(* initial model and over a loaded one                                     *)

\* the catalogue items of the documents: two on page 1, one on page 2
LoadPool == <<11, 12, 5>>

\* stored uids are absent or in 1 .. MaxStoredUid
MaxStoredUid == 3

UidChoices == {None} \cup {Some(u) : u \in 1 .. MaxStoredUid}

NextUidChoices == {None, Some(1), Some(MaxStoredUid + 2)}

\* the tool names the second entry is stored under
ToolNames == {"button_toggle", "button_press", "label"}

\* entry k of the documents, with the stored uid and tool name given
LoadObj(k, uid, tool) == [EntryObj(LoadPool[k]) EXCEPT !.uid = uid, !.tool = tool]

\* a version-3 document of two pages: us[k] is the stored uid of entry k,
\* tl the tool name of entry 2, nu the stored next_uid
LoadDoc(us, tl, nu) ==
    [version |-> 3, grid_n |-> 16, gui_name |-> Some("loaded"),
     pages |-> Some(<<
         [page_id |-> Some(1), background_rects |-> Some(<<Rect(0, 0, 1, 0)>>),
          background |-> None,
          entries |-> Some(<<LoadObj(1, us[1], "button_standard"),
                             LoadObj(2, us[2], tl)>>)],
         [page_id |-> Some(2), background_rects |-> Some(<<>>),
          background |-> None,
          entries |-> Some(<<LoadObj(3, us[3], "button_standard")>>)] >>),
     background |-> None, entries |-> None,
     next_uid |-> nu, start_page_id |-> Some(2)]

GoodDoc == LoadDoc(<<Some(1), Some(2), Some(3)>>, "button_toggle", Some(4))

\* documents the load raises on: version, grid_n, empty pages list, a second
\* page with neither rectangles nor a grid, no pages and no background
BadDocs ==
    {[GoodDoc EXCEPT !.version = 9],
     [GoodDoc EXCEPT !.grid_n = 8],
     [GoodDoc EXCEPT !.pages = Some(<<>>)],
     [GoodDoc EXCEPT !.pages = Some([GoodDoc.pages[1] EXCEPT
                                        ![2].background_rects = None])],
     [GoodDoc EXCEPT !.pages = None]}

LoadDocs ==
    {LoadDoc(us, "button_toggle", nu) :
        us \in [1 .. 3 -> UidChoices], nu \in NextUidChoices}
    \cup {LoadDoc(<<Some(1), u, None>>, tl, Some(1)) :
            u \in {None, Some(2)}, tl \in ToolNames}
    \cup BadDocs

\* the document loaded first when the picked file is loaded second
BaseDoc == PlanDoc({3, 5})

InitLoad ==
    /\ InitModel(16)
    /\ InitUi
    /\ InitCfgDefault
    /\ InitEngine
    /\ \E d \in LoadDocs : doc_in = Some(d)

\* the file picked is the document drawn
LoadPickedFile ==
    /\ doc_in # None
    /\ load_json(doc_in[1])

\* the file picked is the base document
LoadBaseFile ==
    /\ doc_in # None
    /\ load_json(BaseDoc)

NextLoad == LoadPickedFile \/ LoadBaseFile

SpecLoad == InitLoad /\ [][NextLoad]_vars

\* the load made last
LastLoad == load_log[Len(load_log)]

\* the entries of a model, as <<page id, entry>>
AllEntries(pgs) ==
    UNION {{<<p, pgs[p].entries[k]>> : k \in DOMAIN pgs[p].entries} : p \in DOMAIN pgs}

\* C11: after a load that did not raise, no two entries of the model, on
\* the same page or on different pages, have the same uid.
C11_UidsUnique ==
    (load_log # <<>> /\ ~LastLoad.raised) =>
        \A a, b \in AllEntries(pages) : a # b => a[2].uid # b[2].uid


\* the entries of a document in the order the page loop and the entry loop
\* reach _alloc_uid: [page_id, id, uid], entries of unknown tool left out
RECURSIVE Requests(_, _, _)
Requests(pobjs, i, k) ==
    IF i > Len(pobjs) THEN <<>>
    ELSE LET pobj == pobjs[i]
             objs == IF pobj.entries = None THEN <<>> ELSE pobj.entries[1]
         IN IF k > Len(objs) THEN Requests(pobjs, i + 1, 1)
            ELSE IF LoadedTool(objs[k].tool) = None THEN Requests(pobjs, i, k + 1)
            ELSE <<[page_id |-> IF pobj.page_id = None THEN 1 ELSE pobj.page_id[1],
                    id |-> objs[k].id, uid |-> objs[k].uid]>>
                 \o Requests(pobjs, i, k + 1)

\* the requests of the last loaded document
LastRequests ==
    LET data == LastLoad.doc
    IN Requests(IF data.pages = None THEN LegacyPages(data) ELSE data.pages[1], 1, 1)

\* the uid the model holds for the entry a request stands for
LoadedUid(pgs, rq) ==
    EntryById(pgs, rq.page_id, rq.id)[1].uid

\* C12: after a load that did not raise, an entry whose stored uid is a
\* positive integer that no earlier entry of the document has taken holds that
\* uid, and every other entry holds a uid that no entry processed before it
\* has stored.
C12_KeepsOrAllocatesFresh ==
    (load_log # <<>> /\ ~LastLoad.raised) =>
        LET rq == LastRequests
            got(k) == LoadedUid(LastLoad.model.pages, rq[k])
        IN \A k \in DOMAIN rq :
              IF rq[k].uid # None /\ rq[k].uid[1] > 0
                 /\ \A j \in 1 .. k - 1 : got(j) # rq[k].uid[1]
              THEN got(k) = rq[k].uid[1]
              ELSE \A j \in 1 .. k - 1 :
                      rq[j].uid # None => got(k) # rq[j].uid[1]


\* the part of the model a load may not touch when it raises
Kept(m) ==
    [gui_name |-> m.gui_name, grid_n |-> m.grid_n, pages |-> m.pages,
     current_page_id |-> m.current_page_id, start_page_id |-> m.start_page_id,
     next_uid |-> m.next_uid]

\* C13: whenever load_from_json_dict raises, gui name, grid_n, the pages and
\* their contents, the current page, start_page_id and next_uid are what they
\* were before the call.
C13_AllOrNothing ==
    (load_log # <<>> /\ LastLoad.raised) =>
        Kept(LastLoad.model) = Kept(LastLoad.before)


\* the tool names of models.py that are still tools after the load
KnownNames == Tool \ {"button_press"}

\* the entry objects of a list without those of unknown tool, the deprecated
\* name replaced
RECURSIVE CleanedEntries(_)
CleanedEntries(objs) ==
    IF objs = <<>> THEN <<>>
    ELSE LET obj == Head(objs)
         IN (IF obj.tool = "button_press"
             THEN <<[obj EXCEPT !.tool = "button_standard"]>>
             ELSE IF obj.tool \in KnownNames THEN <<obj>> ELSE <<>>)
            \o CleanedEntries(Tail(objs))

\* the document without its entries of unknown tool
Cleaned(data) ==
    IF data.pages = None THEN data
    ELSE [data EXCEPT !.pages = Some([i \in DOMAIN data.pages[1] |->
             LET pobj == data.pages[1][i]
             IN IF pobj.entries = None THEN pobj
                ELSE [pobj EXCEPT !.entries = Some(CleanedEntries(pobj.entries[1]))]])]

\* the entry objects of a document, each with the id of its page
DocEntries(data) ==
    IF data.pages = None THEN {}
    ELSE UNION {LET pobj == data.pages[1][i]
                IN IF pobj.entries = None THEN {}
                   ELSE {<<IF pobj.page_id = None THEN 1 ELSE pobj.page_id[1],
                           pobj.entries[1][k]>> : k \in DOMAIN pobj.entries[1]}
                : i \in DOMAIN data.pages[1]}

\* C14: a load treats an entry named button_press as a button_standard entry
\* and skips an entry whose tool name is unknown without raising: the result
\* (raised or not, entries, cell_to_entry, next_entry_id, uids, next_uid) is
\* that of loading the document without the skipped entries, a button_press
\* entry is in the model as button_standard and a skipped one is not in it.
C14_DeprecatedAndUnknownTools ==
    load_log # <<>> =>
        LET rec == LastLoad
        IN /\ load_from_json_dict(rec.before, Cleaned(rec.doc))
                 = [raised |-> rec.raised, model |-> rec.model]
           /\ ~rec.raised =>
                \A pe \in DocEntries(rec.doc) :
                    LET ent == EntryById(rec.model.pages, pe[1], pe[2].id)
                    IN /\ pe[2].tool = "button_press" =>
                            ent # None /\ ent[1].tool = "button_standard"
                       /\ pe[2].tool \notin Tool => ent = None

\* a load that succeeded on a document holding an entry of unknown tool next
\* to entries that were loaded
C14_Witness ==
    /\ load_log # <<>>
    /\ ~LastLoad.raised
    /\ \E pe \in DocEntries(LastLoad.doc) : pe[2].tool \notin Tool
    /\ \E pe \in DocEntries(LastLoad.doc) : pe[2].uid = None /\ pe[2].tool \in KnownNames
    /\ AllEntries(pages) # {}


----------------------------------------------------------------------------
(* Edit mode: the mouse handlers that place, erase and paint, and the page *)
(* operations                                                              *)

\* placing stops once next_uid has reached MaxUid; add_page stops at MaxPages
MaxUid == 3
MaxPages == 2

SQUARE_ONLY == {"item_slot"}

Abs(a) == IF a >= 0 THEN a ELSE -a

_make_square_rect(start, end) ==
    LET dx == end[1] - start[1]
        dy == end[2] - start[2]
        size == Max(Abs(dx), Abs(dy))
        sx == IF dx >= 0 THEN 1 ELSE -1
        sy == IF dy >= 0 THEN 1 ELSE -1
    IN normalized(Rect(start[1], start[2], start[1] + sx * size, start[2] + sy * size))

_rect_from_drag(start, end) ==
    IF current_tool \in SQUARE_ONLY THEN _make_square_rect(start, end)
    ELSE normalized(Rect(start[1], start[2], end[1], end[2]))

\* the cells of the rect that lie in the grid
CellsInGrid(rect, n) ==
    {c \in cells(rect) : 0 <= c[1] /\ c[1] < n /\ 0 <= c[2] /\ c[2] < n}

\* _remove_entry_id on the page st: the cells that hold the id are cleared
\* and the entry is deleted; nothing happens when the id is no key of entries
_remove_entry_id(st, n, entry_id) ==
    IF ~\E k \in DOMAIN st.entries : st.entries[k].entry_id = entry_id THEN st
    ELSE LET ent == st.entries[CHOOSE k \in DOMAIN st.entries :
                                  st.entries[k].entry_id = entry_id]
             own == CellsInGrid(ent.rect, n)
         IN [st EXCEPT
                !.cell_to_entry = [y \in 0 .. n - 1 |-> [x \in 0 .. n - 1 |->
                    IF <<x, y>> \in own /\ st.cell_to_entry[y][x] = Some(entry_id)
                    THEN None ELSE st.cell_to_entry[y][x]]],
                !.entries = SelectSeq(st.entries, LAMBDA e : e.entry_id # entry_id)]

\* mutant of Touched: only the first cell of the rect is looked at
TouchedAtOrigin(st, n, rect) ==
    {st.cell_to_entry[c[2]][c[1]][1] :
        c \in {d \in CellsInGrid(rect, n) \cap {<<rect.x0, rect.y0>>} :
                  st.cell_to_entry[d[2]][d[1]] # None}}

\* the ids found in the cells of the rect
Touched(st, n, rect) ==
    {st.cell_to_entry[c[2]][c[1]][1] :
        c \in {d \in CellsInGrid(rect, n) : st.cell_to_entry[d[2]][d[1]] # None}}

RECURSIVE RemoveAll(_, _, _)
RemoveAll(st, n, touched) ==
    IF touched = {} THEN st
    ELSE LET eid == CHOOSE e \in touched : TRUE
         IN RemoveAll(_remove_entry_id(st, n, eid), n, touched \ {eid})

_remove_in_rect(st, n, rect) == RemoveAll(st, n, Touched(st, n, rect))

\* the meta a placed entry starts with: the snapshot of the tool's meta for a
\* standard button, then the defaults locked and hover
PlacedMeta(tool) ==
    Meta(FALSE, Some(Hover(FALSE, "")),
         IF tool = "button_standard" THEN Some(PageChange("none", 1, TRUE)) ELSE None)

\* mutant of _place_entry: the entry takes the uid after the one handed out
_place_entry_uid_ahead(st, n, rect, eid, uid) ==
    LET cleared == _remove_in_rect(st, n, rect)
        ent == Entry(eid, uid + 1, current_tool, rect, FALSE, "", PlacedMeta(current_tool))
    IN [cleared EXCEPT !.entries = DictPut(@, ent),
                       !.cell_to_entry = ClaimCells(@, n, rect, eid)]

\* _place_entry on the page st with the ids eid and uid
_place_entry(st, n, rect, eid, uid) ==
    LET cleared == _remove_in_rect(st, n, rect)
        ent == Entry(eid, uid, current_tool, rect, FALSE, "", PlacedMeta(current_tool))
    IN [cleared EXCEPT !.entries = DictPut(@, ent),
                       !.cell_to_entry = ClaimCells(@, n, rect, eid)]

\* a write through self.background, self.entries and self.cell_to_entry
SetLivePage(st) ==
    IF live_page # None
    THEN live_page' = Some(st) /\ pages' = pages
    ELSE live_page' = live_page /\ pages' = [pages EXCEPT ![current_page_id] = st]

\* the tool radio buttons
_on_tool_changed(t) ==
    /\ current_tool' = t
    /\ op' = "tool"
    /\ UNCHANGED <<modelVars, preview_mode, preview_hover_entry_id,
                   group_buttons_by_size, drag,
                   cfgVars, codecVars, ctmVars, planVars, ioVars>>

\* on_left_press on the cell (cx, cy), edit mode
on_left_press(cx, cy) ==
    /\ ~preview_mode
    /\ drag' = Some([start |-> <<cx, cy>>, end |-> <<cx, cy>>,
                     mode |-> IF current_tool = "background"
                              THEN (IF ~LivePage.background[cy][cx]
                                    THEN "paint_on" ELSE "paint_off")
                              ELSE (IF LivePage.cell_to_entry[cy][cx] # None
                                    THEN "erase" ELSE "place")])
    /\ op' = "press"
    /\ UNCHANGED <<modelVars, preview_mode, preview_hover_entry_id,
                   group_buttons_by_size, current_tool,
                   cfgVars, codecVars, ctmVars, planVars, ioVars>>

\* on_left_drag over the cell (cx, cy), edit mode
on_left_drag(cx, cy) ==
    /\ ~preview_mode
    /\ drag # None
    /\ drag' = Some([drag[1] EXCEPT !.end = <<cx, cy>>])
    /\ op' = "drag"
    /\ UNCHANGED <<modelVars, preview_mode, preview_hover_entry_id,
                   group_buttons_by_size, current_tool,
                   cfgVars, codecVars, ctmVars, planVars, ioVars>>

\* on_left_release on a cell of the canvas, edit mode
on_left_release ==
    /\ ~preview_mode
    /\ drag # None
    /\ LET rect == _rect_from_drag(drag[1].start, drag[1].end)
           st == LivePage
       IN IF current_tool = "background"
          THEN /\ SetLivePage([st EXCEPT !.background =
                      [y \in 0 .. grid_n - 1 |-> [x \in 0 .. grid_n - 1 |->
                          IF <<x, y>> \in CellsInGrid(rect, grid_n)
                          THEN drag[1].mode = "paint_on"
                          ELSE st.background[y][x]]]])
               /\ UNCHANGED <<next_entry_id, next_uid, selected_entry_id>>
          ELSE IF drag[1].mode = "erase"
          THEN /\ SetLivePage(_remove_in_rect(st, grid_n, rect))
               /\ selected_entry_id' =
                     IF selected_entry_id # None
                        /\ selected_entry_id[1] \in Touched(st, grid_n, rect)
                     THEN None ELSE selected_entry_id
               /\ UNCHANGED <<next_entry_id, next_uid>>
          ELSE /\ next_uid < MaxUid
               /\ SetLivePage(_place_entry(st, grid_n, rect, next_entry_id, next_uid))
               /\ next_entry_id' = next_entry_id + 1
               /\ next_uid' = next_uid + 1
               /\ selected_entry_id' =
                     IF selected_entry_id # None
                        /\ selected_entry_id[1] \in Touched(st, grid_n, rect)
                     THEN None ELSE selected_entry_id
    /\ drag' = None
    /\ op' = "release"
    /\ UNCHANGED <<grid_n, current_page_id, start_page_id, gui_name,
                   preview_mode, preview_hover_entry_id, group_buttons_by_size,
                   current_tool, cfgVars, codecVars, ctmVars, planVars, ioVars>>

\* add_page: the new page is stored, then goto_page(new_id)
add_page ==
    /\ \A p \in DOMAIN pages : p < MaxPages
    /\ LET new_id == IF DOMAIN pages = {} THEN 1
                     ELSE (CHOOSE a \in DOMAIN pages : \A b \in DOMAIN pages : a >= b) + 1
       IN GotoPage([p \in DOMAIN pages \cup {new_id} |->
                       IF p = new_id THEN _new_page_state(new_id, grid_n) ELSE pages[p]],
                   new_id)
    /\ op' = "add_page"
    /\ UNCHANGED <<grid_n, start_page_id, next_uid, gui_name,
                   preview_mode, group_buttons_by_size, current_tool, drag>>
    /\ UNCHANGED <<cfgVars, codecVars, ctmVars, planVars, ioVars>>

----------------------------------------------------------------------------
(* SpecEdit: editing from the empty page of a new editor                   *)

\* the cells the pointer is pressed on, dragged to and released on
EditCells == {<<15, 15>>, <<15, 13>>}

\* the tools picked
EditTools == {"button_press", "item_slot"}

\* a new editor once a tool has been picked
InitEdit ==
    /\ InitModel(16)
    /\ preview_mode = FALSE
    /\ preview_hover_entry_id = None
    /\ group_buttons_by_size = TRUE
    /\ current_tool \in EditTools
    /\ drag = None
    /\ InitCfgDefault
    /\ InitOutputs

NextEdit ==
    \/ \E t \in EditTools : _on_tool_changed(t)
    \/ \E c \in EditCells : on_left_press(c[1], c[2])
    \/ \E c \in EditCells : on_left_drag(c[1], c[2])
    \/ on_left_release
    \/ add_page
    \/ \E p \in 1 .. MaxPages : goto_page(p)

SpecEdit == InitEdit /\ [][NextEdit]_vars

\* C15: on every page, each cell of an entry's rect that lies in the grid
\* holds the entry's id in cell_to_entry, every cell of cell_to_entry that is
\* not None holds the id of an entry of the page whose rect contains the
\* cell, and no cell lies in the rects of two entries.
C15_CellsMatchEntries ==
    \A p \in DOMAIN pages :
        LET st == pages[p]
        IN /\ \A k \in DOMAIN st.entries :
                 \A c \in CellsInGrid(st.entries[k].rect, grid_n) :
                    st.cell_to_entry[c[2]][c[1]] = Some(st.entries[k].entry_id)
           /\ \A y \in 0 .. grid_n - 1 : \A x \in 0 .. grid_n - 1 :
                 st.cell_to_entry[y][x] # None =>
                    \E k \in DOMAIN st.entries :
                       /\ st.entries[k].entry_id = st.cell_to_entry[y][x][1]
                       /\ <<x, y>> \in cells(st.entries[k].rect)
           /\ \A j, k \in DOMAIN st.entries :
                 j # k => cells(st.entries[j].rect) \cap cells(st.entries[k].rect) = {}

\* a release has left a page with the second entry placed on it alone, its
\* rect reaching out of the grid: the first entry was removed by the placement
\* over it or by an erase
C15_Witness ==
    /\ op = "release"
    /\ \E p \in DOMAIN pages :
          /\ Len(pages[p].entries) = 1
          /\ pages[p].entries[1].entry_id = 2
          /\ cells(pages[p].entries[1].rect)
                # CellsInGrid(pages[p].entries[1].rect, grid_n)


----------------------------------------------------------------------------
(* SpecKeys: the planner on loaded documents, under both settings of the   *)
(* "group buttons by size" checkbox                                        *)

\* documents in which the first two entries are toggles of the same size
ToggleDocs ==
    {[GoodDoc EXCEPT !.pages[1][1].entries[1][1] =
          [LoadObj(1, Some(1), "button_toggle") EXCEPT !.active = a, !.meta.locked = l]] :
        a \in BOOLEAN, l \in BOOLEAN}

KeyDocs ==
    {LoadDoc(us, tl, None) :
        us \in [1 .. 3 -> UidChoices], tl \in {"button_toggle", "button_standard"}}
    \cup ToggleDocs

InitKeys ==
    /\ InitModel(16)
    /\ InitUi
    /\ InitCfgDefault
    /\ InitEngine
    /\ \E d \in KeyDocs : doc_in = Some(d)

NextKeys == LoadPickedFile \/ ToggleGroupBySize \/ PlanLayout

SpecKeys == InitKeys /\ [][NextKeys]_vars

\* the entries of all pages that get a texture block
Exported(pgs) ==
    {pe \in AllEntries(pgs) :
        IncludeInManifest(pe[2]) /\ _entry_requires_component_export(pe[2])}

\* the component the plan holds for the entry ent of page pid
CompOf(plan, pid, ent) ==
    LET r == normalized(ent.rect)
    IN plan.components[CHOOSE k \in DOMAIN plan.components :
          plan.components[k].offset = [page |-> pid, x |-> r.x0, y |-> r.y0]]

\* where the plan put the block of an entry
TextureOf(plan, pe) ==
    LET c == CompOf(plan, pe[1], pe[2]) IN <<c.sheet, c.tex>>

\* C16: in a plan made with group_buttons_by_size set, two exported standard
\* buttons, or two exported toggle buttons, of the same width and height have
\* the same block key, sheet and texture origin; in a plan made with it unset,
\* two different exported elements have different block keys and different
\* placements.
C16_GroupBySizePolicy ==
    plan_out # None =>
        \A a, b \in Exported(pages) :
            /\ (/\ group_buttons_by_size
                /\ a[2].tool = b[2].tool
                /\ a[2].tool \in {"button_standard", "button_toggle"}
                /\ width(a[2].rect) = width(b[2].rect)
                /\ height(a[2].rect) = height(b[2].rect))
               => /\ BlockKey(a[2], TRUE) = BlockKey(b[2], TRUE)
                  /\ TextureOf(plan_out[1], a) = TextureOf(plan_out[1], b)
            /\ (~group_buttons_by_size /\ a # b)
               => /\ BlockKey(a[2], FALSE) # BlockKey(b[2], FALSE)
                  /\ TextureOf(plan_out[1], a) # TextureOf(plan_out[1], b)


----------------------------------------------------------------------------
(* SpecBlock: the exported blocks under texture mappings that lack button  *)
(* variants                                                                *)

\* at most MaxDropped variant keys are left out of a mapping
MaxDropped == 2

\* the full mapping with a module of its own for locked_hover
ModulesAll ==
    [t \in DOMAIN ModulesFull |->
        IF t = "button_standard"
        THEN [k \in {"base", "hover", "locked", "locked_hover"} |->
                 IF k = "locked_hover" THEN "button_locked_hover"
                 ELSE ModulesFull[t][k]]
        ELSE ModulesFull[t]]

\* the <<tool, variant>> keys a mapping may lack
VariantKeys ==
    {<<"button_standard", k>> : k \in {"hover", "locked", "locked_hover"}}
    \cup {<<"button_toggle", k>> : k \in {"base", "hover_base", "hover_unpressed",
                                         "pressed_locked", "unpressed_locked"}}

\* ModulesAll without the keys of D
ModulesWithout(D) ==
    [t \in DOMAIN ModulesAll |->
        [k \in {j \in DOMAIN ModulesAll[t] : <<t, j>> \notin D} |-> ModulesAll[t][k]]]

ModuleFamilies ==
    {ModulesWithout(D) : D \in {E \in SUBSET VariantKeys : Cardinality(E) <= MaxDropped}}

\* the atlas origins: every module, or all but one of these
OriginDrops == {"button_locked", "toggle_on", "toggle_off_locked"}

OriginsAll ==
    [k \in ModuleKeys \cup {"button_locked_hover"} |-> _origin_from_obj(k, 4)]

OriginFamilies ==
    {OriginsAll} \cup {[k \in DOMAIN OriginsAll \ {d} |-> OriginsAll[k]] : d \in OriginDrops}

\* one page with a standard button and a toggle button; the toggle is active
\* or not, locked or not
BlockDoc(a, l) ==
    [GoodDoc EXCEPT !.pages = Some(<<
        [page_id |-> Some(1), background_rects |-> Some(<<>>), background |-> None,
         entries |-> Some(<<LoadObj(1, Some(1), "button_standard"),
                            [LoadObj(2, Some(2), "button_toggle") EXCEPT
                                !.active = a, !.meta.locked = l]>>)]>>),
                    !.start_page_id = Some(1)]

InitBlock ==
    /\ InitModel(16)
    /\ InitUi
    /\ mask_to_offset = None
    /\ tool_modules \in ModuleFamilies
    /\ ctm_origins \in OriginFamilies
    /\ InitEngine
    /\ \E a \in BOOLEAN, l \in BOOLEAN : doc_in = Some(BlockDoc(a, l))

NextBlock == LoadJson \/ ExportSelectedPack

SpecBlock == InitBlock /\ [][NextBlock]_vars

\* the blocks of the sheets the export has just written, each with its
\* representative entry
BlocksOut ==
    IF image_out = None \/ op # "export" THEN {}
    ELSE UNION {{[ent |-> EntryById(pages, b.rep[1], b.rep[2])[1], block |-> b.block] :
                    b \in {image_out[1].sheets[s][i] : i \in DOMAIN image_out[1].sheets[s]}}
                : s \in DOMAIN image_out[1].sheets}

\* the image copied to the corner (qx, qy) of a block, in quadrants
Quadrant(block, qx, qy) ==
    LET to == <<qx * (block.w \div 2), qy * (block.h \div 2)>>
    IN block.parts[CHOOSE k \in DOMAIN block.parts : block.parts[k].to = to].img

\* the variant has a module and the module has an atlas origin
Has(tool, variant) ==
    /\ ModuleOf(tool, variant) # None
    /\ ModuleOf(tool, variant)[1] \in DOMAIN ctm_origins

\* the image of a variant that is there
VariantImage(ent, variant) ==
    _compose_entry_variant_image(ent, ModuleOf(ent.tool, variant))[1]

\* the base variant of a tool: unpressed for a toggle that maps it
BaseVariant(tool) ==
    IF tool = "button_toggle" /\ ModuleOf(tool, "unpressed") # None
    THEN "unpressed" ELSE "base"

\* the variant a toggle's hover quadrant shows
HoverVariant(ent) == IF ent.active THEN "hover_base" ELSE "hover_unpressed"

\* the variant a toggle's disabled quadrant asks for: Optional
DisabledVariant(ent) ==
    IF ent.meta.locked
    THEN Some(IF ent.active THEN "pressed_locked" ELSE "unpressed_locked")
    ELSE IF ModuleOf(ent.tool, "pressed_locked") # None THEN Some("pressed_locked")
    ELSE IF ModuleOf(ent.tool, "unpressed_locked") # None THEN Some("unpressed_locked")
    ELSE IF ModuleOf(ent.tool, "base") # None THEN Some("base")
    ELSE None

\* every planned block of a button whose base variant is there is written
BlockAlwaysReturned ==
    (image_out # None /\ op = "export") =>
        \A s \in DOMAIN plan_out[1].sheets :
            \A i \in DOMAIN plan_out[1].sheets[s].placements :
                LET pl == plan_out[1].sheets[s].placements[i]
                    rep == RepOf(plan_out[1], pl.block_key)[1]
                    ent == EntryById(pages, rep[1], rep[2])[1]
                IN Has(ent.tool, BaseVariant(ent.tool)) =>
                      \E b \in BlocksOut : b.ent = ent

----------------------------------------------------------------------------
(* SpecExport: the three export operations with skin packs that fail       *)

\* the skin packs on disk
PackNames == <<"stone", "wood">>

\* a failing write is one of the first MaxFailAt writes of a pack
MaxFailAt == 1

FailChoices == {None} \cup {Some(k) : k \in 0 .. MaxFailAt}

\* the lists of packs an operation handles, with what goes wrong for each
PackLists == {SubSeq(PackNames, 1, n) : n \in 1 .. Len(PackNames)}

\* export_all_skin_packs: the export folder is emptied, the plan is made, the
\* manifest listing every pack is written, then every pack is exported
export_all_skin_packs(packs, fails) ==
    \E plan \in {_plan_component_sheet_layout(pages, group_buttons_by_size)} :
    \E names \in {PngNames(pages, plan)} :
       /\ export_log' = <<ManifestEvent(packs)>>
                        \o LoopEvents(packs, names, fails, 1, FALSE)
       /\ op' = "export_all"
       /\ UNCHANGED <<modelVars, uiVars, cfgVars, codecVars, ctmVars, planVars,
                      doc_in, image_out, plan_log, load_log, timers>>

\* inject_into_texture_pack: into a folder pack the PNGs are written pack by
\* pack until a pack fails; into a zip pack they are first written to a
\* temporary folder and added to the zip when no pack failed; the manifest is
\* written when no pack failed
inject_into_texture_pack(kind, packs, fails) ==
    \E plan \in {_plan_component_sheet_layout(pages, group_buttons_by_size)} :
    \E names \in {PngNames(pages, plan)} :
       /\ export_log' =
             IF \E i \in DOMAIN packs : ~PackOk(names, fails[i])
             THEN (IF kind = "zip" THEN <<>>
                   ELSE LoopEvents(packs, names, fails, 1, TRUE))
             ELSE LoopEvents(packs, names, fails, 1, TRUE) \o <<ManifestEvent(packs)>>
       /\ op' = "inject"
       /\ UNCHANGED <<modelVars, uiVars, cfgVars, codecVars, ctmVars, planVars,
                      doc_in, image_out, plan_log, load_log, timers>>

InitExport ==
    /\ InitModel(16)
    /\ InitUi
    /\ InitCfgDefault
    /\ InitEngine
    /\ \E a \in BOOLEAN : doc_in = Some(BlockDoc(a, FALSE))

ExportTextures ==
    \E packs \in PackLists : \E fails \in [DOMAIN packs -> FailChoices] :
        export_textures(packs, fails)

ExportAllSkinPacks ==
    \E packs \in PackLists : \E fails \in [DOMAIN packs -> FailChoices] :
        export_all_skin_packs(packs, fails)

InjectIntoTexturePack ==
    \E kind \in {"folder", "zip"}, packs \in PackLists :
        \E fails \in [DOMAIN packs -> FailChoices] :
            inject_into_texture_pack(kind, packs, fails)

NextExport ==
    LoadJson \/ ExportTextures \/ ExportAllSkinPacks \/ InjectIntoTexturePack

SpecExport == InitExport /\ [][NextExport]_vars

\* the PNGs of a pack that the last export wrote
Written(pack) ==
    {export_log[i].name : i \in {j \in DOMAIN export_log :
        export_log[j].what = "png" /\ export_log[j].pack = pack /\ export_log[j].ok}}

\* nothing of the pack failed and its last PNG, the background of the last
\* page, was written: the writes of a pack stop at the first that fails
PackComplete(pack) ==
    /\ \A i \in DOMAIN export_log : export_log[i].pack = pack => export_log[i].ok
    /\ \A p \in DOMAIN pages : <<"background_page", p>> \in Written(pack)

Exporting == op \in {"export", "export_all", "inject"}

\* C18: in the output of an export operation nothing is written after a
\* sheet or background of a skin pack failed, and gui_manifest.json is not
\* there together with a listed skin pack that lacks one of its sheets.
C18_StopsAtFirstFailure ==
    Exporting =>
       /\ \A i, j \in DOMAIN export_log :
             (i < j /\ ~export_log[i].ok) => ~export_log[j].ok
       /\ \A m \in DOMAIN export_log :
             export_log[m].what = "manifest" =>
                \A k \in DOMAIN export_log[m].skin_packs :
                   PackComplete(export_log[m].skin_packs[k])

\* the same for inject_into_texture_pack alone
C18_InjectStops == (op = "inject") => C18_StopsAtFirstFailure

\* the same for export_textures alone: nothing is written after a failure
C18_ExportTexturesStops ==
    (op = "export") =>
       \A i, j \in DOMAIN export_log :
          (i < j /\ ~export_log[i].ok) => ~export_log[j].ok

\* the same for export_textures alone: the manifest comes with complete packs
C18_ExportTexturesManifest ==
    (op = "export") =>
       \A m \in DOMAIN export_log :
          export_log[m].what = "manifest" =>
             \A k \in DOMAIN export_log[m].skin_packs :
                PackComplete(export_log[m].skin_packs[k])

----------------------------------------------------------------------------
(* Saving: to_json_dict, and the document read back                        *)

JSON_VERSION == 3

\* sorted(p.entries.values(), key=lambda x: x.entry_id)
RECURSIVE SortedById(_)
SortedById(S) ==
    IF S = {} THEN <<>>
    ELSE LET e == CHOOSE a \in S : \A b \in S : a.entry_id <= b.entry_id
         IN <<e>> \o SortedById(S \ {e})

\* to_json_dict on the model m; available_in_skin_packs, which no load
\* reads, is left out
to_json_dict(m) ==
    LET ids == _sorted_page_ids(m.pages)
    IN [version |-> JSON_VERSION,
        gui_name |-> Some(m.gui_name),
        grid_n |-> m.grid_n,
        start_page_id |-> Some(m.start_page_id),
        next_uid |-> Some(m.next_uid),
        background |-> None,
        entries |-> None,
        pages |-> Some([k \in 1 .. Len(ids) |->
            LET p == m.pages[ids[k]]
                es == SortedById(Range(p.entries))
            IN [page_id |-> Some(ids[k]),
                background_rects |-> Some(_background_to_rects(p.background, m.grid_n)),
                background |-> None,
                entries |-> Some([i \in 1 .. Len(es) |->
                    [id |-> es[i].entry_id, uid |-> Some(es[i].uid),
                     tool |-> es[i].tool, rect |-> es[i].rect,
                     active |-> es[i].active, label |-> es[i].label,
                     meta |-> es[i].meta]])]])]

\* the editor state written and read back
Reloaded == load_from_json_dict(CurrentModel, to_json_dict(CurrentModel))

\* the saved document lists the pages and each page's entries in ascending
\* order of their ids, with version 3
SavedInOrder(d) ==
    /\ d.version = 3
    /\ \A i, j \in DOMAIN d.pages[1] :
          i < j => d.pages[1][i].page_id[1] < d.pages[1][j].page_id[1]
    /\ \A k \in DOMAIN d.pages[1] :
          \A i, j \in DOMAIN d.pages[1][k].entries[1] :
             i < j => d.pages[1][k].entries[1][i].id < d.pages[1][k].entries[1][j].id

\* the model r holds what the editor holds
SameModel(r) ==
    /\ r.grid_n = grid_n
    /\ DOMAIN r.pages = DOMAIN pages
    /\ \A p \in DOMAIN pages :
          /\ r.pages[p].background = pages[p].background
          /\ Range(r.pages[p].entries) = Range(pages[p].entries)
    /\ r.start_page_id = start_page_id
    /\ r.next_uid = next_uid

\* C19: what to_json_dict writes of an editor state reached by editing,
\* load_from_json_dict reads back as the same grid size, pages, backgrounds,
\* entries, start page and next_uid; the document lists pages and entries in
\* ascending id order with version 3.
C19_SaveLoadRoundTrip ==
    /\ SavedInOrder(to_json_dict(CurrentModel))
    /\ ~Reloaded.raised
    /\ SameModel(Reloaded.model)

\* the same for the states without an entry of the tool button_press
C19_RoundTripWithoutButtonPress ==
    (\A p \in DOMAIN pages : \A k \in DOMAIN pages[p].entries :
        pages[p].entries[k].tool # "button_press")
    => C19_SaveLoadRoundTrip


----------------------------------------------------------------------------
(* SpecUid: placing and erasing, pages added, switched and deleted, the    *)
(* grid toggled, and documents loaded                                      *)

\* delete_current_page: with the page deleted, goto_page(fallback) raises
\* KeyError in _sync_current_page_back, since current_page_id still names the
\* deleted page: the editor keeps current_page_id and goes on aliasing the
\* deleted page.  When current_page_id names no page, ids.index raises before
\* anything is written; the last remaining page is not deleted.
delete_current_page ==
    /\ IF Cardinality(DOMAIN pages) <= 1 \/ current_page_id \notin DOMAIN pages
       THEN UNCHANGED <<pages, start_page_id, live_page>>
       ELSE LET ids == _sorted_page_ids(pages)
                idx == CHOOSE i \in DOMAIN ids : ids[i] = current_page_id
                fallback == IF idx > 1 THEN ids[idx - 1] ELSE ids[idx + 1]
            IN /\ pages' = [p \in DOMAIN pages \ {current_page_id} |-> pages[p]]
               /\ start_page_id' = IF start_page_id = current_page_id
                                   THEN fallback ELSE start_page_id
               /\ live_page' = Some(LivePage)
    /\ op' = "delete_page"
    /\ UNCHANGED <<grid_n, current_page_id, next_uid, next_entry_id,
                   selected_entry_id, gui_name>>
    /\ UNCHANGED <<uiVars, cfgVars, codecVars, ctmVars, planVars, ioVars>>

\* mutant of toggle_grid: start_page_id is left as it was
toggle_grid_keeps_start ==
    LET new_n == IF grid_n = 16 THEN 32 ELSE 16
    IN /\ grid_n' = new_n
       /\ pages' = [p \in {1} |-> _new_page_state(1, new_n)]
       /\ current_page_id' = 1
       /\ next_entry_id' = 1
       /\ selected_entry_id' = None
       /\ live_page' = None
       /\ op' = "toggle_grid"
       /\ UNCHANGED <<start_page_id, next_uid, gui_name>>
       /\ UNCHANGED <<uiVars, cfgVars, codecVars, ctmVars, planVars, ioVars>>

\* toggle_grid: the other grid size, and one empty page
toggle_grid ==
    LET new_n == IF grid_n = 16 THEN 32 ELSE 16
    IN /\ grid_n' = new_n
       /\ pages' = [p \in {1} |-> _new_page_state(1, new_n)]
       /\ current_page_id' = 1
       /\ start_page_id' = 1
       /\ next_entry_id' = 1
       /\ selected_entry_id' = None
       /\ live_page' = None
       /\ op' = "toggle_grid"
       /\ UNCHANGED <<next_uid, gui_name>>
       /\ UNCHANGED <<uiVars, cfgVars, codecVars, ctmVars, planVars, ioVars>>

\* the cell pressed
UidCell == <<15, 15>>

\* a version-3 document of one page with one entry: u is its stored uid, nu
\* the stored next_uid
UidDoc(u, nu) ==
    [version |-> 3, grid_n |-> 16, gui_name |-> None,
     pages |-> Some(<<[page_id |-> Some(1), background_rects |-> Some(<<>>),
                       background |-> None,
                       entries |-> Some(<<LoadObj(1, u, "button_standard")>>)]>>),
     background |-> None, entries |-> None,
     next_uid |-> nu, start_page_id |-> None]

\* documents every load accepts
UidDocs == {UidDoc(u, None) : u \in {None, Some(2)}}

\* a new editor once the standard button tool has been picked
InitUid ==
    /\ InitModel(16)
    /\ preview_mode = FALSE
    /\ preview_hover_entry_id = None
    /\ group_buttons_by_size = TRUE
    /\ current_tool = "button_standard"
    /\ drag = None
    /\ InitCfgDefault
    /\ InitEngine
    /\ \E d \in UidDocs : doc_in = Some(d)

NextUid ==
    \/ on_left_press(UidCell[1], UidCell[2])
    \/ on_left_release
    \/ add_page
    \/ \E p \in 1 .. MaxPages : goto_page(p)
    \/ delete_current_page
    \/ toggle_grid
    \/ LoadJson

SpecUid == InitUid /\ [][NextUid]_vars

\* the uids of the entries on the pages and on the page being edited
UidsInUse ==
    {e[2].uid : e \in AllEntries(pages)}
    \cup {LivePage.entries[k].uid : k \in DOMAIN LivePage.entries}

\* C20: next_uid is greater than the uid of every entry on every page; it
\* never decreases except when a load replaces the model; an entry placed
\* gets a uid that no entry had.
C20_NextUidAhead ==
    /\ [](\A u \in UidsInUse : u < next_uid)
    /\ [][op' # "load" => next_uid' >= next_uid]_vars
    /\ [][(op' = "release" /\ next_uid' # next_uid) =>
             /\ next_uid \notin UidsInUse
             /\ next_uid \in UidsInUse']_vars

\* an entry placed on the page of a loaded document: the page holds the
\* entry loaded and the entry placed
C20_Witness ==
    /\ op = "release"
    /\ \E p \in DOMAIN pages :
          /\ Len(pages[p].entries) = 2
          /\ \E k \in DOMAIN pages[p].entries :
                pages[p].entries[k].rect = LoadObj(1, None, "button_standard").rect
    /\ next_uid = 3


----------------------------------------------------------------------------
(* SpecManifest: the sheet and texture origin the plan's components carry  *)

\* the catalogue items the documents take their entries from: buttons and
\* toggles of several sizes, one of them oversized, and a text slot
ManifestItems == {1, 3, 5, 7, 8, 10}

\* a mapping whose standard button has no hover and no locked module
ModulesBaseOnly ==
    ModulesWithout({<<"button_standard", "hover">>, <<"button_standard", "locked">>})

InitManifest ==
    /\ InitModel(16)
    /\ InitUi
    /\ mask_to_offset = None
    /\ tool_modules \in {ModulesFull, ModulesBaseOnly}
    /\ ctm_origins = OriginsFull
    /\ InitEngine
    /\ \E S \in SUBSET ManifestItems : doc_in = Some(PlanDoc(S))

NextManifest == LoadJson \/ ToggleGroupBySize \/ PlanLayout

SpecManifest == InitManifest /\ [][NextManifest]_vars

\* the entry is a toggle button, or a standard button with a hover or locked
\* module that is not its base module
RequiresOwnTexture(ent) ==
    \/ ent.tool = "button_toggle"
    \/ /\ ent.tool = "button_standard"
       /\ \E k \in {"hover", "locked"} :
             /\ ModuleOf(ent.tool, k) # None
             /\ ModuleOf(ent.tool, k) # ModuleOf(ent.tool, "base")

C21_WitnessPlainButton ==
    /\ plan_out # None
    /\ \E k \in DOMAIN Plan.components :
          Plan.components[k].type = "button" /\ Plan.components[k].sheet = None
    /\ \E k \in DOMAIN Plan.components :
          Plan.components[k].type = "toggle_button" /\ Plan.components[k].sheet # None


----------------------------------------------------------------------------
(* The packer's order and first fit, read off a plan of SpecPlan           *)

\* the block of key a is processed before the block of key b: larger pixel
\* area first, then larger height, then larger width, then the larger key
ProcessedBefore(a, b) ==
    LET area_a == BlockW(a) * BlockH(a)
        area_b == BlockW(b) * BlockH(b)
    IN IF area_a # area_b THEN area_a > area_b
       ELSE IF BlockH(a) # BlockH(b) THEN BlockH(a) > BlockH(b)
       ELSE IF BlockW(a) # BlockW(b) THEN BlockW(a) > BlockW(b)
       ELSE StrLess(ReprKey(b), ReprKey(a))

\* a sheet that is not dedicated to an oversized block
OpenSheet(s) == ~Oversized(Plan.sheets[s].placements[1].block_key)

\* the tiles of sheet s taken when the block of key bk is processed
TakenBefore(s, bk) ==
    UNION {PlacementTiles(Plan.sheets[s].placements[i]) :
              i \in {j \in DOMAIN Plan.sheets[s].placements :
                        ProcessedBefore(Plan.sheets[s].placements[j].block_key, bk)}}

\* the tile origins of a sheet at which a block of w_t by h_t tiles lies
\* inside the sheet and on tiles that are not in taken
FreeFor(taken, w_t, h_t) ==
    {o \in (0 .. sheet_tiles - w_t) \X (0 .. sheet_tiles - h_t) :
        \A xx \in o[1] .. o[1] + w_t - 1 : \A yy \in o[2] .. o[2] + h_t - 1 :
            <<xx, yy>> \notin taken}

\* C22: the blocks are processed in descending order of area, then height,
\* then width, then key; a block that is not oversized lies on the first
\* open sheet with a free position for it, at the first free origin in
\* row-major order, and a sheet is opened only when no open sheet had one.
C22_LargestFirstFirstFit ==
    plan_out # None =>
        /\ \A s \in DOMAIN Plan.sheets : \A i, j \in DOMAIN Plan.sheets[s].placements :
              i < j => ProcessedBefore(Plan.sheets[s].placements[i].block_key,
                                       Plan.sheets[s].placements[j].block_key)
        /\ \A s, t \in DOMAIN Plan.sheets :
              s < t => ProcessedBefore(Plan.sheets[s].placements[1].block_key,
                                       Plan.sheets[t].placements[1].block_key)
        /\ \A s \in DOMAIN Plan.sheets : \A i \in DOMAIN Plan.sheets[s].placements :
              LET pl == Plan.sheets[s].placements[i]
                  w_t == CeilDiv(BlockW(pl.block_key), TILE_PX)
                  h_t == CeilDiv(BlockH(pl.block_key), TILE_PX)
                  here == FreeFor(TakenBefore(s, pl.block_key), w_t, h_t)
                  own == <<pl.x \div TILE_PX, pl.y \div TILE_PX>>
              IN ~Oversized(pl.block_key) =>
                    /\ \A u \in 1 .. s - 1 :
                          OpenSheet(u) => FreeFor(TakenBefore(u, pl.block_key), w_t, h_t) = {}
                    /\ own \in here
                    /\ pl.x = own[1] * TILE_PX /\ pl.y = own[2] * TILE_PX
                    /\ \A o \in here :
                          own[2] < o[2] \/ (own[2] = o[2] /\ own[1] <= o[1])

\* a plan in which a block lies to the right of another on a sheet whose
\* rows below are free, a block went to a later sheet because the earlier
\* open sheets had no room, and two blocks of the same size were ordered by
\* their keys
C22_Witness ==
    /\ plan_out # None
    /\ \E s \in DOMAIN Plan.sheets : \E i, j \in DOMAIN Plan.sheets[s].placements :
          /\ i < j
          /\ Plan.sheets[s].placements[i].x = 0
          /\ Plan.sheets[s].placements[j].x > 0
          /\ Plan.sheets[s].placements[j].y = 0
    /\ \E s, t \in DOMAIN Plan.sheets :
          /\ s < t
          /\ OpenSheet(s) /\ OpenSheet(t)
          /\ Len(Plan.sheets[s].placements) >= 1
    /\ \E s, t \in DOMAIN Plan.sheets :
          \E i \in DOMAIN Plan.sheets[s].placements, j \in DOMAIN Plan.sheets[t].placements :
             /\ <<s, i>> # <<t, j>>
             /\ BlockW(Plan.sheets[s].placements[i].block_key)
                   = BlockW(Plan.sheets[t].placements[j].block_key)
             /\ BlockH(Plan.sheets[s].placements[i].block_key)
                   = BlockH(Plan.sheets[t].placements[j].block_key)


----------------------------------------------------------------------------
(* SpecOverlap: documents whose two entries overlap, repeat an id, or      *)
(* reach out of the grid                                                   *)

\* the rects of the entries: two that overlap in a cell, one apart, one that
\* leaves a 16 by 16 grid
OverlapRects == {Rect(0, 0, 1, 1), Rect(1, 1, 2, 2), Rect(5, 5, 5, 5),
                 Rect(14, 14, 17, 17)}

OverlapObj(id, rect) == [EntryObj(1) EXCEPT !.id = id, !.uid = None, !.rect = rect]

\* a version-3 document of one page with two entries; the second has the id
\* id2
OverlapDoc(n, r1, r2, id2) ==
    [version |-> 3, grid_n |-> n, gui_name |-> None,
     pages |-> Some(<<[page_id |-> Some(1), background_rects |-> Some(<<>>),
                       background |-> None,
                       entries |-> Some(<<OverlapObj(1, r1), OverlapObj(id2, r2)>>)]>>),
     background |-> None, entries |-> None,
     next_uid |-> None, start_page_id |-> None]

InitOverlap ==
    /\ InitModel(16)
    /\ InitUi
    /\ InitCfgDefault
    /\ InitEngine
    /\ \E n \in {16, 32}, r1 \in OverlapRects, r2 \in OverlapRects, id2 \in {1, 2} :
          doc_in = Some(OverlapDoc(n, r1, r2, id2))

NextOverlap == LoadJson \/ toggle_grid

SpecOverlap == InitOverlap /\ [][NextOverlap]_vars

\* the Page invariant on the page st of a grid of n by n cells
PageInvariant(st, n) ==
    /\ \A k \in DOMAIN st.entries :
          \A c \in CellsInGrid(st.entries[k].rect, n) :
             st.cell_to_entry[c[2]][c[1]] = Some(st.entries[k].entry_id)
    /\ \A j, k \in DOMAIN st.entries :
          j # k => CellsInGrid(st.entries[j].rect, n)
                      \cap CellsInGrid(st.entries[k].rect, n) = {}

\* C23: after a load, every page satisfies the Page invariant: each cell in
\* the grid of each entry's rect holds that entry's id in cell_to_entry, and
\* no cell is claimed by two entries.
C23_LoadKeepsPageInvariant ==
    op = "load" => \A p \in DOMAIN pages : PageInvariant(pages[p], grid_n)

\* the same for the documents whose entries have different ids and rects
\* without a common cell
C23_DisjointEntriesLoadClean ==
    (/\ op = "load"
     /\ LET es == doc_in[1].pages[1][1].entries[1]
        IN es[1].id # es[2].id /\ cells(es[1].rect) \cap cells(es[2].rect) = {})
    => \A p \in DOMAIN pages : PageInvariant(pages[p], grid_n)


----------------------------------------------------------------------------
(* The current page under the page operations of SpecUid                   *)

\* C24: after every page operation current_page_id is a key of pages and the
\* editor's background, entries and cell_to_entry are those of
\* pages[current_page_id]; delete_current_page removes the current page and
\* makes its neighbour the current page.
C24_CurrentPageIsAPage ==
    op \in {"goto_page", "add_page", "delete_page"} =>
        /\ current_page_id \in DOMAIN pages
        /\ live_page = None


----------------------------------------------------------------------------
(* SpecStart: pages added, deleted and switched, the grid toggled, and     *)
(* documents loaded whose start_page_id is missing or names no page        *)

\* a version-3 document with an empty page for each id of ids
StartDoc(ids, start) ==
    [version |-> 3, grid_n |-> 16, gui_name |-> None,
     pages |-> Some([k \in DOMAIN ids |->
                 [page_id |-> Some(ids[k]), background_rects |-> Some(<<>>),
                  background |-> None, entries |-> Some(<<>>)]]),
     background |-> None, entries |-> None,
     next_uid |-> None, start_page_id |-> start]

StartDocs ==
    {StartDoc(ids, start) : ids \in {<<1, 2>>, <<3, 2>>, <<3>>},
                            start \in {None, Some(1), Some(2), Some(5)}}

InitStart ==
    /\ InitModel(16)
    /\ InitUi
    /\ InitCfgDefault
    /\ InitEngine
    /\ \E d \in StartDocs : doc_in = Some(d)

NextStart ==
    \/ add_page
    \/ delete_current_page
    \/ \E p \in 0 .. MaxPages + 1 : goto_page(p)
    \/ toggle_grid
    \/ LoadJson

SpecStart == InitStart /\ [][NextStart]_vars

\* the smallest key of pgs
SmallestPageId(pgs) == CHOOSE a \in DOMAIN pgs : \A b \in DOMAIN pgs : a <= b

\* the page before pid in ascending order, or the page after it when pid is
\* the first
NeighbourOf(pgs, pid) ==
    IF \E q \in DOMAIN pgs : q < pid
    THEN CHOOSE q \in DOMAIN pgs : q < pid /\ \A r \in DOMAIN pgs : r < pid => r <= q
    ELSE CHOOSE q \in DOMAIN pgs : q > pid /\ \A r \in DOMAIN pgs : r > pid => q <= r

\* the start page the document read names no page of the document
StartNamesNoPage(d) ==
    (IF d.start_page_id = None THEN 1 ELSE d.start_page_id[1])
        \notin {d.pages[1][k].page_id[1] : k \in DOMAIN d.pages[1]}

\* C25: pages is never empty and start_page_id is a key of pages; a goto_page
\* changes nothing or makes an existing page the current page; deleting the
\* only page leaves pages unchanged; deleting the start page re-points
\* start_page_id to the fallback page; toggle_grid leaves one empty page 1 as
\* start and current page; a load whose start_page_id names no page falls
\* back to the smallest page id.
C25_StartPageIsAPage ==
    /\ [](DOMAIN pages # {} /\ start_page_id \in DOMAIN pages)
    /\ [][op' = "goto_page" =>
             \/ UNCHANGED modelVars
             \/ current_page_id' \in DOMAIN pages /\ DOMAIN pages' = DOMAIN pages]_vars
    /\ [][(op' = "delete_page" /\ Cardinality(DOMAIN pages) = 1) =>
             pages' = pages]_vars
    /\ [][(op' = "delete_page" /\ pages' # pages) =>
             /\ DOMAIN pages' = DOMAIN pages \ {current_page_id}
             /\ start_page_id' = IF start_page_id = current_page_id
                                 THEN NeighbourOf(pages, current_page_id)
                                 ELSE start_page_id]_vars
    /\ [][op' = "toggle_grid" =>
             /\ pages' = [p \in {1} |-> _new_page_state(1, grid_n')]
             /\ start_page_id' = 1
             /\ current_page_id' = 1]_vars
    /\ [][(op' = "load" /\ StartNamesNoPage(doc_in[1])) =>
             start_page_id' = SmallestPageId(pages')]_vars

\* the start page, being the current page and the first of two, was deleted:
\* the start page is now the page after it
C25_Witness ==
    /\ op = "delete_page"
    /\ DOMAIN pages = {2}
    /\ start_page_id = 2
    /\ current_page_id = 1


----------------------------------------------------------------------------
(* SpecIds: entries placed and erased on pages that are left and come back *)
(* to, on new pages and on loaded ones                                     *)

NextIds ==
    \/ on_left_press(UidCell[1], UidCell[2])
    \/ on_left_release
    \/ add_page
    \/ \E p \in 1 .. MaxPages : goto_page(p)
    \/ LoadJson

SpecIds == InitUid /\ [][NextIds]_vars

\* the id the next entry placed on page p gets: the editor's counter for the
\* current page, the page's own for the others
NextIdOf(p) ==
    IF p = current_page_id THEN next_entry_id ELSE pages[p].next_entry_id

\* C26: the id a page gives to its next entry is greater than the id of
\* every entry on the page and is never lowered while the page exists, by a
\* page switch or otherwise, and an entry placed gets that id: no id is used
\* twice on a page.
C26_EntryIdsNeverReused ==
    /\ [](\A p \in DOMAIN pages : \A k \in DOMAIN pages[p].entries :
             pages[p].entries[k].entry_id < NextIdOf(p))
    /\ [][op' # "load" =>
             \A p \in DOMAIN pages :
                /\ p \in DOMAIN pages'
                /\ NextIdOf(p)' >= NextIdOf(p)]_vars
    /\ [][(op' = "release" /\ next_uid' # next_uid) =>
             /\ current_page_id' = current_page_id
             /\ NextIdOf(current_page_id)' = NextIdOf(current_page_id) + 1
             /\ \E k \in DOMAIN pages'[current_page_id].entries :
                   /\ pages'[current_page_id].entries[k].entry_id = NextIdOf(current_page_id)
                   /\ pages'[current_page_id].entries[k].uid = next_uid]_vars

\* page 1 was left after its first entry was placed and come back to; the
\* entry was erased and the entry placed after it has the id 2
C26_Witness ==
    /\ op = "release"
    /\ current_page_id = 1
    /\ 2 \in DOMAIN pages
    /\ pages[1].next_entry_id = 2
    /\ next_entry_id = 3
    /\ Len(pages[1].entries) = 1
    /\ pages[1].entries[1].entry_id = 2

----------------------------------------------------------------------------
(* SpecPreview: the canvas in preview mode, on the pages loaded from a      *)
(* family of documents whose standard buttons change page                  *)

\* the callbacks that may be pending at once
MaxTimers == 2

\* the page st with the active flag of the entry entry_id set to v
WithActive(st, entry_id, v) ==
    [st EXCEPT !.entries =
        [k \in DOMAIN @ |->
            IF @[k].entry_id = entry_id THEN [@[k] EXCEPT !.active = v] ELSE @[k]]]

\* mutant of _preview_handle_standard_button_action: next and prev stop at
\* the ends of the page list whatever modulo says
_preview_action_without_modulo(pgs, ent) ==
    LET ids == _sorted_page_ids(pgs)
        Returns == [kind |-> "return", page |-> 0]
    IN IF ent.meta.page_change = None THEN Returns
       ELSE LET pc == ent.meta.page_change[1] IN
            IF Len(ids) = 0 \/ pc.mode \in {"none", "close"} THEN Returns
            ELSE IF pc.mode = "goto"
                 THEN (IF pc.target_page_id \in DOMAIN pgs
                       THEN [kind |-> "goto", page |-> pc.target_page_id]
                       ELSE Returns)
            ELSE IF current_page_id \notin Range(ids)
                 THEN [kind |-> "raise", page |-> 0]
            ELSE IF pc.mode \notin {"next", "prev"} THEN Returns
            ELSE LET cur_idx == IndexOf(ids, current_page_id) - 1
                     new_idx == IF pc.mode = "next" THEN cur_idx + 1 ELSE cur_idx - 1
                 IN IF new_idx < 0 \/ new_idx >= Len(ids) THEN Returns
                    ELSE [kind |-> "goto", page |-> ids[new_idx + 1]]

\* what _preview_handle_standard_button_action(ent) does once self.pages is
\* pgs: it returns, it raises at ids.index, or it calls goto_page(page)
_preview_handle_standard_button_action(pgs, ent) ==
    LET ids == _sorted_page_ids(pgs)
        Returns == [kind |-> "return", page |-> 0]
    IN IF ent.meta.page_change = None THEN Returns
       ELSE LET pc == ent.meta.page_change[1] IN
            IF Len(ids) = 0 THEN Returns
            ELSE IF pc.mode = "none" THEN Returns
            ELSE IF pc.mode = "close" THEN Returns
            ELSE IF pc.mode = "goto"
                 THEN (IF pc.target_page_id \in DOMAIN pgs
                       THEN [kind |-> "goto", page |-> pc.target_page_id]
                       ELSE Returns)
            ELSE IF current_page_id \notin Range(ids)
                 THEN [kind |-> "raise", page |-> 0]
            ELSE IF pc.mode \notin {"next", "prev"} THEN Returns
            ELSE LET cur_idx == IndexOf(ids, current_page_id) - 1
                     new_idx == IF pc.mode = "next" THEN cur_idx + 1 ELSE cur_idx - 1
                 IN IF pc.modulo
                    THEN [kind |-> "goto", page |-> ids[(new_idx % Len(ids)) + 1]]
                    ELSE IF new_idx < 0 \/ new_idx >= Len(ids) THEN Returns
                    ELSE [kind |-> "goto", page |-> ids[new_idx + 1]]

\* on_left_press on the cell (cx, cy), preview mode: _preview_handle_press.
\* The action of a standard button runs once its active flag is set; when it
\* raises (ids.index, or the sync of goto_page, with the current page gone)
\* root.after is not reached.  The popups of a text entry and of a select
\* list only open here.
_preview_handle_press(cx, cy) ==
    /\ preview_mode
    /\ Len(timers) < MaxTimers
    /\ op' = "preview_press"
    /\ LET e == _entry_at_cell(cx, cy) IN
       IF e = None \/ e[1].meta.locked
          \/ e[1].tool \notin {"button_standard", "button_toggle"}
       THEN UNCHANGED <<pages, current_page_id, next_entry_id, selected_entry_id,
                        live_page, preview_hover_entry_id, timers>>
       ELSE IF e[1].tool = "button_toggle"
       THEN /\ SetLivePage(WithActive(LivePage, e[1].entry_id, ~e[1].active))
            /\ UNCHANGED <<current_page_id, next_entry_id, selected_entry_id,
                           preview_hover_entry_id, timers>>
       ELSE LET ent == e[1]
                st == WithActive(LivePage, ent.entry_id, TRUE)
                pgs == IF live_page # None THEN pages
                       ELSE [pages EXCEPT ![current_page_id] = st]
                act == _preview_handle_standard_button_action(pgs, ent)
                raised == \/ act.kind = "raise"
                          \/ act.kind = "goto" /\ current_page_id \notin DOMAIN pgs
            IN /\ IF act.kind = "goto" /\ ~raised
                  THEN GotoPage(pgs, act.page)
                  ELSE /\ pages' = pgs
                       /\ live_page' = IF live_page # None THEN Some(st) ELSE live_page
                       /\ UNCHANGED <<current_page_id, next_entry_id,
                                      selected_entry_id, preview_hover_entry_id>>
               /\ timers' = IF raised THEN timers
                            ELSE Append(timers, <<current_page_id, ent.entry_id>>)
    /\ UNCHANGED <<grid_n, start_page_id, next_uid, gui_name,
                   preview_mode, group_buttons_by_size, current_tool, drag>>
    /\ UNCHANGED <<cfgVars, codecVars, ctmVars, planVars,
                   doc_in, image_out, plan_log, load_log, export_log>>

\* the callback scheduled first runs: _preview_deactivate_if_exists(page_id,
\* entry_id) on self.pages
_preview_deactivate_if_exists ==
    /\ timers # <<>>
    /\ LET page_id == Head(timers)[1]
           entry_id == Head(timers)[2]
       IN pages' = IF page_id \notin DOMAIN pages THEN pages
                   ELSE [pages EXCEPT ![page_id].entries =
                           [k \in DOMAIN @ |->
                               IF @[k].entry_id = entry_id
                                  /\ @[k].tool = "button_standard"
                               THEN [@[k] EXCEPT !.active = FALSE] ELSE @[k]]]
    /\ timers' = Tail(timers)
    /\ op' = "preview_deactivate"
    /\ UNCHANGED <<grid_n, current_page_id, start_page_id, next_uid, next_entry_id,
                   selected_entry_id, gui_name, live_page>>
    /\ UNCHANGED <<uiVars, cfgVars, codecVars, ctmVars, planVars,
                   doc_in, image_out, plan_log, load_log, export_log>>

\* on_left_drag, on_left_release and on_right_press in preview mode return
\* at once
PreviewIgnores(name) ==
    /\ preview_mode
    /\ op' = name
    /\ UNCHANGED <<modelVars, uiVars, cfgVars, codecVars, ctmVars, planVars, ioVars>>

\* mutant of on_right_press: the entry under the cell becomes the selection
\* in preview mode too
on_right_press_in_any_mode(cx, cy) ==
    /\ LET ent == _entry_at_cell(cx, cy)
       IN selected_entry_id' = IF ent # None THEN Some(ent[1].entry_id) ELSE None
    /\ op' = "right_press"
    /\ UNCHANGED <<grid_n, pages, current_page_id, start_page_id, next_uid,
                   next_entry_id, gui_name, live_page>>
    /\ UNCHANGED <<uiVars, cfgVars, codecVars, ctmVars, planVars, ioVars>>

\* on_right_press on the cell (cx, cy): the entry under it becomes the
\* selection in edit mode
on_right_press(cx, cy) ==
    IF preview_mode THEN PreviewIgnores("preview_right_press")
    ELSE /\ LET ent == _entry_at_cell(cx, cy)
            IN selected_entry_id' = IF ent # None THEN Some(ent[1].entry_id) ELSE None
         /\ op' = "right_press"
         /\ UNCHANGED <<grid_n, pages, current_page_id, start_page_id, next_uid,
                        next_entry_id, gui_name, live_page>>
         /\ UNCHANGED <<uiVars, cfgVars, codecVars, ctmVars, planVars, ioVars>>

\* the cells pressed: the standard button, the toggle, the locked button and
\* an empty cell
PreviewCells == {<<0, 0>>, <<2, 0>>, <<4, 0>>, <<6, 0>>}

\* the page_change dicts of the documents' buttons, None for a missing one
PageChanges ==
    {None, Some(PageChange("none", 1, TRUE)), Some(PageChange("close", 1, FALSE)),
     Some(PageChange("goto", 1, FALSE)), Some(PageChange("goto", 2, TRUE)),
     Some(PageChange("goto", 7, FALSE)), Some(PageChange("other", 1, TRUE))}
    \cup {Some(PageChange(m, 1, w)) : m \in {"next", "prev"}, w \in BOOLEAN}

\* the entries of each page of a document: a standard button with the
\* page_change pc, a toggle button and a locked standard button
PreviewEntries(pc) ==
    << [id |-> 1, uid |-> Some(1), tool |-> "button_standard",
        rect |-> Rect(0, 0, 1, 1), active |-> FALSE, label |-> "",
        meta |-> Meta(FALSE, Some(Hover(FALSE, "")), pc)],
       [id |-> 2, uid |-> Some(2), tool |-> "button_toggle",
        rect |-> Rect(2, 0, 3, 1), active |-> FALSE, label |-> "",
        meta |-> Meta(FALSE, Some(Hover(FALSE, "")), None)],
       [id |-> 3, uid |-> Some(3), tool |-> "button_standard",
        rect |-> Rect(4, 0, 5, 1), active |-> FALSE, label |-> "",
        meta |-> Meta(TRUE, Some(Hover(FALSE, "")),
                      Some(PageChange("next", 1, TRUE)))] >>

\* a version-3 document of the pages ids, each with the entries above
PreviewDoc(ids, pc) ==
    [version |-> 3, grid_n |-> 16, gui_name |-> None,
     pages |-> Some([i \in DOMAIN ids |->
                 [page_id |-> Some(ids[i]), background_rects |-> Some(<<>>),
                  background |-> None, entries |-> Some(PreviewEntries(pc))]]),
     background |-> None, entries |-> None,
     next_uid |-> None, start_page_id |-> None]

\* the documents of SpecPreview: the button opens the next page, the first
\* after the last
PreviewChanges == {Some(PageChange("next", 1, TRUE))}

InitPreview ==
    /\ InitModel(16)
    /\ InitUi
    /\ InitCfgDefault
    /\ InitEngine
    /\ \E pc \in PreviewChanges : doc_in = Some(PreviewDoc(<<1, 2>>, pc))

NextPreview ==
    \/ LoadJson
    \/ toggle_preview
    \/ \E c \in PreviewCells : _preview_handle_press(c[1], c[2])
    \/ _preview_deactivate_if_exists
    \/ PreviewIgnores("preview_drag")
    \/ PreviewIgnores("preview_release")
    \/ on_right_press(0, 0)
    \/ \E p \in 1 .. MaxPages : goto_page(p)
    \/ delete_current_page
    \/ add_page

SpecPreview == InitPreview /\ [][NextPreview]_vars


\* an unlocked entry of the tool lies under the cell c of the current page
UnlockedAt(c, tool) ==
    LET e == _entry_at_cell(c[1], c[2])
    IN e # None /\ ~e[1].meta.locked /\ e[1].tool = tool

\* the entry under the cell c
EntryAt(c) == _entry_at_cell(c[1], c[2])[1]

\* the entries of page t[1] with the id t[2], on the pages pgs
EntriesNamed(pgs, t) ==
    IF t[1] \notin DOMAIN pgs THEN {}
    ELSE {pgs[t[1]].entries[k] : k \in {j \in DOMAIN pgs[t[1]].entries :
                                          pgs[t[1]].entries[j].entry_id = t[2]}}

\* C27: in preview mode a press of an unlocked standard button schedules the
\* callback that deactivates it; once that callback has run the button is
\* inactive, and the callback changes nothing when the page or the entry is
\* gone; a press of an unlocked toggle button flips its active flag and
\* schedules nothing.
C27_PressedButtonDeactivated ==
    /\ [][\A c \in PreviewCells :
             (UnlockedAt(c, "button_standard") /\ _preview_handle_press(c[1], c[2]))
             => timers' = Append(timers, <<current_page_id, EntryAt(c).entry_id>>)]_vars
    /\ [][op' = "preview_deactivate" =>
             IF EntriesNamed(pages, Head(timers)) = {}
             THEN pages' = pages /\ live_page' = live_page
             ELSE \A e \in EntriesNamed(pages', Head(timers)) :
                     e.tool = "button_standard" => ~e.active]_vars
    /\ [][\A c \in PreviewCells :
             (UnlockedAt(c, "button_toggle") /\ _preview_handle_press(c[1], c[2]))
             => /\ timers' = timers
                /\ current_page_id' = current_page_id
                /\ \E k \in DOMAIN LivePage.entries :
                      /\ LivePage.entries[k].entry_id = EntryAt(c).entry_id
                      /\ LivePage'.entries[k].active = ~EntryAt(c).active]_vars


----------------------------------------------------------------------------
(* SpecNav: the preview presses on every page_change of the family, on     *)
(* documents of one page and of two                                        *)

InitNav ==
    /\ InitModel(16)
    /\ InitUi
    /\ InitCfgDefault
    /\ InitEngine
    /\ \E pc \in PageChanges, ids \in {<<1, 2>>, <<2>>} :
          doc_in = Some(PreviewDoc(ids, pc))

NextNav ==
    \/ LoadJson
    \/ toggle_preview
    \/ \E c \in PreviewCells : _preview_handle_press(c[1], c[2])
    \/ _preview_deactivate_if_exists
    \/ \E p \in 1 .. MaxPages : goto_page(p)

SpecNav == InitNav /\ [][NextNav]_vars

\* the entry of page p with the id entry_id is active on the pages pgs
ActiveOn(pgs, p, entry_id) ==
    \E e \in EntriesNamed(pgs, <<p, entry_id>>) : e.active

\* C28: a preview press of an unlocked standard button of the current page p
\* calls goto_page(q) exactly when the exported component of the button has
\* open_page = q: with open_page = q the editor is on page q with the
\* standard buttons of q inactive, with no open_page it stays on p with the
\* button active.
C28_PreviewFollowsOpenPage ==
    [][\A c \in PreviewCells :
          (/\ live_page = None
           /\ current_page_id \in DOMAIN pages
           /\ UnlockedAt(c, "button_standard")
           /\ _preview_handle_press(c[1], c[2]))
          => LET ent == EntryAt(c)
                 open_page == Component(pages, current_page_id, ent,
                                        group_buttons_by_size).open_page
             IN IF open_page # None
                THEN /\ current_page_id' = open_page[1]
                     /\ selected_entry_id' = None
                     /\ \A e \in AllEntries(pages') :
                           (e[1] = open_page[1] /\ e[2].tool = "button_standard")
                           => ~e[2].active
                ELSE /\ current_page_id' = current_page_id
                     /\ ActiveOn(pages', current_page_id, ent.entry_id)]_vars

\* the button of page 2 whose action is "next" with modulo has been pressed:
\* the editor went round to page 1
C28_Witness ==
    /\ op = "preview_press"
    /\ doc_in = Some(PreviewDoc(<<1, 2>>, Some(PageChange("next", 1, TRUE))))
    /\ timers # <<>>
    /\ timers[Len(timers)] = <<2, 1>>
    /\ current_page_id = 1


\* what editing changes of a page: its background, its cell_to_entry and the
\* id, rect, tool and uid of its entries
Layout(st) ==
    [background |-> st.background, cell_to_entry |-> st.cell_to_entry,
     entries |-> [k \in DOMAIN st.entries |->
                    [entry_id |-> st.entries[k].entry_id, rect |-> st.entries[k].rect,
                     tool |-> st.entries[k].tool, uid |-> st.entries[k].uid]]]

\* a locked entry lies under the cell c of the current page
LockedAt(c) ==
    LET e == _entry_at_cell(c[1], c[2]) IN e # None /\ e[1].meta.locked

\* C30: while preview_mode is on, a left press, drag, release or right press
\* on the canvas changes no page's background, entries (their set, rect, tool
\* and uid), cell_to_entry or next entry id, nor next_uid, nor the selection;
\* a press on a locked entry changes no active flag and no label and does not
\* switch page.
C30_PreviewDoesNoEditing ==
    /\ [][(preview_mode /\ op' \in {"preview_press", "preview_drag",
                                    "preview_release", "preview_right_press"})
          => /\ DOMAIN pages' = DOMAIN pages
             /\ \A p \in DOMAIN pages :
                   /\ Layout(pages'[p]) = Layout(pages[p])
                   /\ NextIdOf(p)' = NextIdOf(p)
             /\ Layout(LivePage') = Layout(LivePage) \/ current_page_id' # current_page_id
             /\ next_uid' = next_uid
             /\ selected_entry_id' = selected_entry_id]_vars
    /\ [][\A c \in PreviewCells :
             (LockedAt(c) /\ _preview_handle_press(c[1], c[2]))
             => /\ pages' = pages
                /\ live_page' = live_page
                /\ current_page_id' = current_page_id]_vars


\* the values of op the canvas handlers of the mouse leave
MouseOps ==
    {"press", "drag", "release", "right_press", "preview_press",
     "preview_drag", "preview_release", "preview_right_press"}

\* C30 (amended): while preview_mode is on, no left press, drag, release or
\* right press changes a page's background, entries (their set, rect, tool
\* and uid), cell_to_entry or next entry id, nor next_uid; the selection is
\* kept, except that the press of an unlocked standard button that calls
\* goto_page clears it; a press on a locked entry changes no active flag, no
\* label and not the page.
C30_PreviewEditsNothing ==
    /\ [][(preview_mode /\ op' \in MouseOps)
          => /\ DOMAIN pages' = DOMAIN pages
             /\ \A p \in DOMAIN pages :
                   /\ Layout(pages'[p]) = Layout(pages[p])
                   /\ NextIdOf(p)' = NextIdOf(p)
             /\ Layout(LivePage') = Layout(LivePage) \/ current_page_id' # current_page_id
             /\ next_uid' = next_uid
             /\ \/ selected_entry_id' = selected_entry_id
                \/ /\ selected_entry_id' = None
                   /\ \E c \in PreviewCells :
                         /\ UnlockedAt(c, "button_standard")
                         /\ _preview_handle_press(c[1], c[2])
                         /\ _preview_handle_standard_button_action(pages, EntryAt(c)).kind
                               = "goto"]_vars
    /\ [][\A c \in PreviewCells :
             (LockedAt(c) /\ _preview_handle_press(c[1], c[2]))
             => /\ pages' = pages
                /\ live_page' = live_page
                /\ current_page_id' = current_page_id
                /\ selected_entry_id' = selected_entry_id]_vars

\* a press in preview mode, with the toggle button of the page on and the
\* entry selected in edit mode still selected
C30_Witness ==
    /\ preview_mode
    /\ op = "preview_press"
    /\ selected_entry_id = Some(1)
    /\ ActiveOn(pages, current_page_id, 2)
    /\ live_page = None


----------------------------------------------------------------------------
(* SpecGroup: the export of documents holding two buttons of one size, in   *)
(* either order, on one page or on two                                     *)

\* the buttons the documents are made of:
\* <<page, tool, x0, y0, locked, active>>, each two tiles wide and high
GroupPool ==
    << <<1, "button_standard", 0, 0, FALSE, FALSE>>,
       <<1, "button_standard", 3, 0, TRUE, TRUE>>,
       <<2, "button_standard", 5, 5, FALSE, TRUE>>,
       <<1, "button_toggle", 6, 0, FALSE, FALSE>>,
       <<1, "button_toggle", 0, 3, FALSE, TRUE>>,
       <<2, "button_toggle", 0, 0, FALSE, FALSE>>,
       <<1, "button_toggle", 9, 0, TRUE, TRUE>>,
       <<2, "button_toggle", 9, 9, TRUE, TRUE>> >>

\* the entry object of pool item i: id and uid are i
GroupObj(i) ==
    LET c == GroupPool[i] IN
    [id |-> i, uid |-> Some(i), tool |-> c[2],
     rect |-> Rect(c[3], c[4], c[3] + 1, c[4] + 1),
     active |-> c[6], label |-> "",
     meta |-> Meta(c[5], Some(Hover(FALSE, "")),
                   IF c[2] = "button_standard"
                   THEN Some(PageChange("none", 1, TRUE)) ELSE None)]

\* a version-3 document of two pages holding the pool items a then b
GroupDoc(a, b) ==
    [version |-> 3, grid_n |-> 16, gui_name |-> None,
     pages |-> Some([p \in 1 .. 2 |->
                 [page_id |-> Some(p), background_rects |-> Some(<<>>),
                  background |-> None,
                  entries |-> Some(SelectSeq(<<GroupObj(a), GroupObj(b)>>,
                                             LAMBDA o : GroupPool[o.id][1] = p))]]),
     background |-> None, entries |-> None,
     next_uid |-> None, start_page_id |-> None]

InitGroup ==
    /\ InitModel(16)
    /\ InitUi
    /\ mask_to_offset = None
    /\ tool_modules \in {ModulesAll, ModulesFull}
    /\ ctm_origins \in OriginFamilies
    /\ InitEngine
    /\ \E a, b \in DOMAIN GroupPool : a # b /\ doc_in = Some(GroupDoc(a, b))

NextGroup == LoadJson \/ ToggleGroupBySize \/ ExportSelectedPack

SpecGroup == InitGroup /\ [][NextGroup]_vars

\* C29: with group_buttons_by_size set, two entries that get the same block
\* key compose the same 2x2 block, and every block an export has written is
\* the block of each entry that has its key, whichever was recorded as the
\* representative.
C29_SameKeySameBlock ==
    group_buttons_by_size =>
        /\ \A a, b \in Exported(pages) :
              BlockKey(a[2], TRUE) = BlockKey(b[2], TRUE)
              => _compose_component_block(a[2]) = _compose_component_block(b[2])
        /\ \A blk \in BlocksOut : \A e \in Exported(pages) :
              BlockKey(e[2], TRUE) = BlockKey(blk.ent, TRUE)
              => Some(blk.block) = _compose_component_block(e[2])

\* an export with grouping has written a block whose key a second entry, not
\* the representative, has too
C29_Witness ==
    /\ group_buttons_by_size
    /\ op = "export"
    /\ \E blk \in BlocksOut : \E e \in Exported(pages) :
          /\ e[2] # blk.ent
          /\ BlockKey(e[2], TRUE) = BlockKey(blk.ent, TRUE)

====
